---- MODULE Spec2Model ----
(***************************************************************************)
(* Batch symbol loaders of the stock-watching application                  *)
(* (src/renderer/utils/*Loader.ts and the RobustStockLoader).              *)
(*                                                                         *)
(* One loader instance is modelled at a time (variable loader says which   *)
(* class it is).  A loadAllStocks call is a run; a run advances from one   *)
(* await to the next in one step.  The quote source answers every call     *)
(* with any sub-list of the requested symbols, or rejects.                 *)
(***************************************************************************)
EXTENDS Integers, Sequences, FiniteSets, TLC

\* ---------------------------------------------------------------- bounds
\* number of symbols in the requested universe
NumSymbols == 4
\* symbols requested from the PersistentStockLoader (its 10% cache threshold
\* only lets a run resume from a cache when more than 10 symbols are asked)
PersistentNumSymbols == 11
\* batchSize of every loader (configurable per policy in the source)
BatchSize == 2
\* loadAllStocks calls made on one page
MaxCalls == 2

SymbolPool ==
  << "AAA", "BBB", "CCC", "DDD", "EEE", "FFF", "GGG", "HHH", "III", "JJJ",
     "KKK", "LLL", "MMM" >>

Loaders == { "Persistent", "Batch", "Mega", "Robust", "SP500", "Optimized" }

VARIABLES
  loader,              \* the loader class under test
  store,               \* the localStorage entry under the loader's key
  loadedStocks,        \* this.loadedStocks
  processedSymbols,    \* this.processedSymbols
  isRunning,           \* this.isRunning
  consecutiveFailures, \* this.consecutiveFailures
  failureCount,        \* this.failureCount
  run,                 \* the loadAllStocks calls: locals, position, callbacks seen
  calls,               \* number of loadAllStocks calls made
  quote,               \* a quote on its way from the source to a consumer
  ledger,              \* the practice trading account and its stored copy
  client,              \* the ServerStockLoader singleton and its calls
  server               \* the stock API server process

\* what the loaders do not touch
auxVars == << quote, ledger, client, server >>

\* the state of a loader instance and of its calls
loaderVars ==
  << loader, store, loadedStocks, processedSymbols, isRunning,
     consecutiveFailures, failureCount, run, calls >>

vars ==
  << loader, store, loadedStocks, processedSymbols, isRunning,
     consecutiveFailures, failureCount, run, calls, quote, ledger, client, server >>

\* ---------------------------------------------------------------- helpers
Min(a, b) == IF a < b THEN a ELSE b

SeqToSet(s) == { s[k] : k \in 1..Len(s) }

Tickers(stocks) == { stocks[k].ticker : k \in 1..Len(stocks) }

NoDuplicates(stocks) ==
  \A j, k \in 1..Len(stocks) : stocks[j].ticker = stocks[k].ticker => j = k

RECURSIVE SubLists(_)
\* every sub-list of s, order kept
SubLists(s) ==
  IF Len(s) = 0 THEN { <<>> }
  ELSE LET rest == SubLists(Tail(s))
       IN  rest \cup { <<Head(s)>> \o t : t \in rest }

\* allSymbols / SP500_SYMBOLS / STOCK_SYMBOLS: the requested universe
allSymbols(l) ==
  SubSeq(SymbolPool, 1, IF l = "Persistent" THEN PersistentNumSymbols ELSE NumSymbols)

\* symbols.slice(i, i + batchSize), batches numbered from 1
Batch(symbols, i) ==
  SubSeq(symbols, (i - 1) * BatchSize + 1, Min(i * BatchSize, Len(symbols)))

\* batches.length of createBatches(symbols, batchSize)
NumBatches(symbols) == (Len(symbols) + BatchSize - 1) \div BatchSize

\* a filter that keeps every symbol, cached or not
KeepEverySymbol(symbols, stocks) == symbols

\* allSymbols.filter(symbol => !loadedSymbols.has(symbol))
getRemainingSymbols(symbols, stocks) ==
  SelectSeq(symbols, LAMBDA s : s \notin Tickers(stocks))

\* ------------------------------------------------------------ quote source
\* what window.electronAPI.fetchMultipleStocks can answer for a batch
SourceReplies(batch) ==
  { [ok |-> TRUE, data |-> [k \in 1..Len(d) |-> [symbol |-> d[k]]]] : d \in SubLists(batch) }
    \cup { [ok |-> FALSE, data |-> <<>>] }

\* getMultipleStocksData: a rejection is caught and becomes the empty list
getMultipleStocksData(reply) == IF reply.ok THEN reply.data ELSE <<>>

\* convertToStock(realData)
convertToStock(d) == [ticker |-> d.symbol]

\* realData.map(convertToStock)
ConvertAll(data) == [k \in 1..Len(data) |-> convertToStock(data[k])]

\* a threshold that no cache ever covers
CoversNever(n, total, tenths) == FALSE

\* the cache-sufficiency test `cached.length >= total * fraction`, with the
\* fraction given in tenths (0.1, 0.5, 0.8, 0.9 in the loaders)
CoversThreshold(n, total, tenths) == n * 10 >= total * tenths

\* ------------------------------------------------------------ Progress Store
NoSnapshot ==
  [present |-> FALSE, stocks |-> <<>>, processed |-> {}, expired |-> FALSE,
   throws |-> FALSE]

\* a localStorage whose getItem, setItem and removeItem all throw
Unavailable == [NoSnapshot EXCEPT !.throws = TRUE]

\* localStorage.setItem(key, JSON.stringify({stocks, timestamp: Date.now(), ...}));
\* when setItem throws, saveToCache of the PersistentStockLoader and of the
\* SP500Loader catches the exception and the store is left as it is
Snapshot(stocks, processed) ==
  IF store.throws THEN store
  ELSE [present |-> TRUE, stocks |-> stocks, processed |-> processed, expired |-> FALSE,
        throws |-> FALSE]

\* Date.now() - cacheData.timestamp > this.maxCacheAge
isExpired(s) == s.expired

\* loadFromCache() of the loaders that check the age: the stocks it returns
CachedStocks(s) == IF s.present /\ ~isExpired(s) THEN s.stocks ELSE <<>>

\* loadFromCache() of the loaders that check the age: an expired entry is removed
StoreAfterRead(s) == IF s.present /\ isExpired(s) THEN NoSnapshot ELSE s

\* ------------------------------------------------------------ runs
IdleRun ==
  [ pc        |-> "idle",   \* idle, fetch, retryDelay, delay, done, rejected
    symbols   |-> <<>>,     \* the remaining symbols the run batches
    i         |-> 0,        \* index of the current batch
    attempt   |-> 0,        \* attempt of the retry loop
    retries   |-> 0,        \* batchRetries of the outer retry loop
    allStocks |-> <<>>,     \* the local allStocks array
    startFails |-> 0,       \* the consecutive-failure counter at the call
    exhausted |-> {},       \* symbols of the batches given up after the last retry
    abandoned |-> 0,        \* quote-source calls left unanswered by a timeout
    pending   |-> {},       \* the batches of those calls
    cleared   |-> {},       \* tickers accumulated when clearCache() was called
    cached    |-> {},       \* tickers of the records held when the run started
    snapshot  |-> {},       \* tickers of the fresh snapshot in the store at the call
    stale     |-> FALSE,    \* the store held an expired snapshot at the call
    inflight  |-> <<>>,     \* symbols of the quote-source call in flight
    requested |-> {},       \* symbols passed to the quote source so far
    nCalls    |-> 0,        \* quote-source calls issued
    nBatches  |-> 0,        \* batch attempts that have ended
    progress  |-> <<>>,     \* onProgress calls: <<loaded, isFromCache>>
    nComplete |-> 0,        \* onComplete calls
    complete  |-> <<>>,     \* payload of the last onComplete call
    nError    |-> 0,        \* onError calls
    errLoaded |-> 0,        \* records accumulated at the last onError call
    errFails  |-> 0,        \* consecutive failures counted at the last onError call
    resolved  |-> {},       \* symbols the quote source returned a record for
    srcSome   |-> TRUE,     \* every reply so far held at least one record
    srcFull   |-> TRUE,     \* every reply so far held all requested symbols
    srcNone   |-> TRUE,     \* every reply so far was a rejection or empty
    stopped   |-> FALSE,    \* stop() was called during the run
    stopBatch |-> 0,        \* the batch in flight when stop() was called, or 0
    late      |-> FALSE ]   \* a call was issued for another batch after stop()

OnProgress(rn, loaded, fromCache) ==
  [rn EXCEPT !.progress = Append(@, <<loaded, fromCache>>)]

OnComplete(rn, stocks) ==
  [rn EXCEPT !.nComplete = @ + 1, !.complete = stocks, !.pc = "done"]

OnError(rn, loaded, fails) ==
  [rn EXCEPT !.nError = @ + 1, !.errLoaded = loaded, !.errFails = fails]

\* the counter the loader compares with its ceiling: this.failureCount in the
\* RobustStockLoader, this.consecutiveFailures in the others
ConsecutiveCounter ==
  IF loader = "Robust" THEN failureCount ELSE consecutiveFailures

\* the record of a loadAllStocks call made while the store holds st and the
\* loader holds the records held
NewRun(st, held) ==
  [IdleRun EXCEPT !.cached = Tickers(held),
                  !.snapshot = Tickers(CachedStocks(st)),
                  !.stale = st.present /\ isExpired(st),
                  !.startFails = ConsecutiveCounter]

\* await getMultipleStocksData(batch): the call is issued
CallSource(rn, batch) ==
  [rn EXCEPT !.pc = "fetch", !.inflight = batch,
             !.requested = @ \cup SeqToSet(batch), !.nCalls = @ + 1,
             !.late = @ \/ (rn.stopped /\ rn.i # rn.stopBatch)]

\* the reply of the quote source reaches the run
Replied(rn, reply) ==
  [rn EXCEPT !.inflight = <<>>,
             !.srcFull = @ /\ reply.ok /\ Len(reply.data) = Len(rn.inflight),
             !.srcNone = @ /\ Len(getMultipleStocksData(reply)) = 0,
             !.srcSome = @ /\ Len(getMultipleStocksData(reply)) > 0,
             !.resolved = @ \cup { getMultipleStocksData(reply)[k].symbol :
                                     k \in 1..Len(getMultipleStocksData(reply)) }]

\* the batch attempt of the run has ended
BatchEnded(rn) == [rn EXCEPT !.nBatches = @ + 1]

\* the records of the loadAllStocks calls that can be under way at once
Runs == { 1, 2 }

Active(r) == run[r].pc \in { "fetch", "retryDelay", "outerDelay", "delay" }

Ended(r) == run[r].pc \in { "done", "rejected" }

\* loadAllStocks may be called as run r: the page makes at most MaxCalls calls,
\* the calls on an instance follow each other, and the record of an ended run
\* is reused by the next call
MayCall(r) ==
  /\ calls < MaxCalls
  /\ r = 1
  /\ \A q \in Runs : ~Active(q)

\* no quote is on its way
NoQuote == [stage |-> "none"]

\* the trading page has not been opened
NoLedger == [stage |-> "none"]

\* no ServerStockLoader has been constructed
NoClient == [stage |-> "none"]

\* no server process has been started
NoServer == [stage |-> "none"]

\* a loader instance constructed over an empty store
Constructed ==
  /\ store = NoSnapshot
  /\ loadedStocks = <<>>
  /\ processedSymbols = {}
  /\ isRunning = FALSE
  /\ consecutiveFailures = 0
  /\ failureCount = 0
  /\ run = [r \in Runs |-> IdleRun]
  /\ calls = 0

Init ==
  /\ loader \in Loaders
  /\ Constructed
  /\ quote = NoQuote
  /\ ledger = NoLedger
  /\ client = NoClient
  /\ server = NoServer

\* time passes until the snapshot is older than maxCacheAge
CacheExpires ==
  /\ store.present
  /\ ~store.expired
  /\ store' = [store EXCEPT !.expired = TRUE]
  /\ UNCHANGED << loader, loadedStocks, processedSymbols, isRunning,
                  consecutiveFailures, failureCount, run, calls >>
  /\ UNCHANGED auxVars

\* ------------------------------------------------ PersistentStockLoader
PersistentMaxRetries == 3

\* the consecutive-failure ceiling (10 in the source)
PersistentMaxConsecutiveFailures == 2

\* processSymbolsPersistent names allSymbols, which is not in its scope:
\* evaluating the arguments of onProgress throws a ReferenceError
PersistentProgressThrows == TRUE

\* loadBatchPersistent is entered for batch i: attempt 1 calls at once
PersistentBeginBatch(rn, i) ==
  CallSource([rn EXCEPT !.i = i, !.attempt = 1], Batch(rn.symbols, i))

\* the body of the batch loop after loadBatchPersistent returned batchStocks,
\* up to the next await or the end of the call.  Gives <<run, store, cf, fc>>.
PersistentAfterBatch(rn0, batchStocks, st, cf, fc) ==
  LET ok     == Len(batchStocks) > 0
      all    == rn0.allStocks \o batchStocks
      rn1    == BatchEnded([rn0 EXCEPT !.allStocks = all])
      st1    == IF ok THEN Snapshot(all, {}) ELSE st
      cf1    == IF ok THEN 0 ELSE cf + 1
      last   == rn1.i >= NumBatches(rn1.symbols)
  IN  IF PersistentProgressThrows
      THEN \* line 97 throws; the catch block counts a failure
           IF Len(all) > 0
           THEN \* line 119 throws again, out of the catch block: the promise rejects
                << [rn1 EXCEPT !.pc = "rejected"], st1, cf1 + 1, fc + 1 >>
           ELSE << [OnError(rn1, Len(all), cf1 + 1) EXCEPT !.pc = "done"], st1, cf1 + 1, fc + 1 >>
      ELSE LET rn2 == OnProgress(rn1, Len(all), FALSE)
           IN  IF cf1 >= PersistentMaxConsecutiveFailures
               THEN << [OnError(rn2, Len(all), cf1) EXCEPT !.pc = "done"], st1, cf1, fc >>
               ELSE IF last
                    THEN << OnComplete(rn2, all), Snapshot(all, {}), cf1, fc >>
                    ELSE << PersistentBeginBatch(rn2, rn2.i + 1), st1, cf1, fc >>

\* loadAllStocks(allSymbols, ...) up to its first await
PersistentStart(r) ==
  /\ loader = "Persistent"
  /\ MayCall(r)
  /\ calls' = calls + 1
  /\ LET cachedStocks == CachedStocks(store)
         st0          == StoreAfterRead(store)
         rn0          == [NewRun(store, cachedStocks) EXCEPT !.allStocks = cachedStocks]
         rn1          == IF Len(cachedStocks) > 0
                         THEN OnProgress(rn0, Len(cachedStocks), TRUE)
                         ELSE rn0
         remaining    == getRemainingSymbols(allSymbols(loader), cachedStocks)
         rn2          == [rn1 EXCEPT !.symbols = remaining]
     IN  IF Len(cachedStocks) > 0 /\ CoversThreshold(Len(cachedStocks), Len(allSymbols(loader)), 1)
         THEN /\ run' = [run EXCEPT ![r] = OnComplete(rn1, cachedStocks)]
              /\ store' = st0
         ELSE IF Len(remaining) = 0
              THEN /\ run' = [run EXCEPT ![r] = OnComplete(rn2, cachedStocks)]
                   /\ store' = Snapshot(cachedStocks, {})
              ELSE /\ run' = [run EXCEPT ![r] = PersistentBeginBatch(rn2, 1)]
                   /\ store' = st0
  /\ UNCHANGED << loader, loadedStocks, processedSymbols, isRunning,
                  consecutiveFailures, failureCount >>
  /\ UNCHANGED auxVars

\* the quote source answers an attempt of loadBatchPersistent
PersistentReply(r) ==
  /\ loader = "Persistent"
  /\ run[r].pc = "fetch"
  /\ \E reply \in SourceReplies(run[r].inflight) :
       LET rn       == Replied(run[r], reply)
           realData == getMultipleStocksData(reply)
       IN  IF Len(realData) = 0 /\ rn.attempt < PersistentMaxRetries
           THEN /\ run' = [run EXCEPT ![r] = [rn EXCEPT !.pc = "retryDelay"]]
                /\ UNCHANGED << store, consecutiveFailures, failureCount >>
           ELSE LET out == PersistentAfterBatch(rn, ConvertAll(realData), store,
                                                consecutiveFailures, failureCount)
                IN  /\ run' = [run EXCEPT ![r] = out[1]]
                    /\ store' = out[2]
                    /\ consecutiveFailures' = out[3]
                    /\ failureCount' = out[4]
  /\ UNCHANGED << loader, loadedStocks, processedSymbols, isRunning, calls >>
  /\ UNCHANGED auxVars

\* the retry delays of loadBatchPersistent end: the next attempt calls the source
PersistentRetry(r) ==
  /\ loader = "Persistent"
  /\ run[r].pc = "retryDelay"
  /\ run' = [run EXCEPT ![r] =
               CallSource([run[r] EXCEPT !.attempt = @ + 1], Batch(run[r].symbols, run[r].i))]
  /\ UNCHANGED << loader, store, loadedStocks, processedSymbols, isRunning,
                  consecutiveFailures, failureCount, calls >>
  /\ UNCHANGED auxVars

\* ------------------------------------------------ BatchStockLoader
BatchMaxRetries == 2

\* loadBatchWithRetry is entered for batch i
BeginBatch(rn, i) ==
  CallSource([rn EXCEPT !.i = i, !.attempt = 1], Batch(rn.symbols, i))

\* BatchStockLoader.loadAllStocks(allSymbols, ...) up to its first await
BatchStart(r) ==
  /\ loader = "Batch"
  /\ MayCall(r)
  /\ calls' = calls + 1
  /\ LET rn0 == [NewRun(store, <<>>) EXCEPT !.symbols = allSymbols(loader)]
     IN  run' = [run EXCEPT ![r] =
                   IF Len(rn0.symbols) = 0 THEN OnComplete(rn0, <<>>) ELSE BeginBatch(rn0, 1)]
  /\ UNCHANGED << loader, store, loadedStocks, processedSymbols, isRunning,
                  consecutiveFailures, failureCount >>
  /\ UNCHANGED auxVars

\* the quote source answers an attempt of BatchStockLoader.loadBatchWithRetry
BatchReply(r) ==
  /\ loader = "Batch"
  /\ run[r].pc = "fetch"
  /\ \E reply \in SourceReplies(run[r].inflight) :
       LET rn       == Replied(run[r], reply)
           realData == getMultipleStocksData(reply)
           all      == rn.allStocks \o ConvertAll(realData)
           last     == rn.i >= NumBatches(rn.symbols)
       IN  IF Len(realData) = 0 /\ rn.attempt < BatchMaxRetries
           THEN run' = [run EXCEPT ![r] = [rn EXCEPT !.pc = "retryDelay"]]
           ELSE \* success, or the error thrown after the last attempt and caught
                \* by the batch loop: both report progress and go on
                LET rn1 == OnProgress(BatchEnded([rn EXCEPT !.allStocks = all]), Len(all), FALSE)
                IN  run' = [run EXCEPT ![r] =
                              IF last THEN OnComplete(rn1, all) ELSE [rn1 EXCEPT !.pc = "delay"]]
  /\ UNCHANGED << loader, store, loadedStocks, processedSymbols, isRunning,
                  consecutiveFailures, failureCount, calls >>
  /\ UNCHANGED auxVars

\* delay(retryDelay) ends: the next attempt of the same batch
BatchRetry(r) ==
  /\ loader = "Batch"
  /\ run[r].pc = "retryDelay"
  /\ run' = [run EXCEPT ![r] =
               CallSource([run[r] EXCEPT !.attempt = @ + 1], Batch(run[r].symbols, run[r].i))]
  /\ UNCHANGED << loader, store, loadedStocks, processedSymbols, isRunning,
                  consecutiveFailures, failureCount, calls >>
  /\ UNCHANGED auxVars

\* delay(delayBetweenBatches) ends: the next batch
BatchDelayDone(r) ==
  /\ loader = "Batch"
  /\ run[r].pc = "delay"
  /\ run' = [run EXCEPT ![r] = BeginBatch(run[r], run[r].i + 1)]
  /\ UNCHANGED << loader, store, loadedStocks, processedSymbols, isRunning,
                  consecutiveFailures, failureCount, calls >>
  /\ UNCHANGED auxVars

\* ------------------------------------------------ MegaStockLoader
MegaMaxRetries == 3

\* MegaStockLoader.loadAllStocks(allSymbols, ...) up to its first await
MegaStart(r) ==
  /\ loader = "Mega"
  /\ MayCall(r)
  /\ calls' = calls + 1
  /\ LET cachedStocks == CachedStocks(store)
         st0          == StoreAfterRead(store)
         rn0          == [NewRun(store, cachedStocks) EXCEPT !.allStocks = cachedStocks]
         rn1          == IF Len(cachedStocks) > 0
                         THEN OnProgress(rn0, Len(cachedStocks), TRUE)
                         ELSE rn0
         remaining    == getRemainingSymbols(allSymbols(loader), cachedStocks)
         rn2          == [rn1 EXCEPT !.symbols = remaining]
     IN  IF Len(cachedStocks) > 0 /\ CoversThreshold(Len(cachedStocks), Len(allSymbols(loader)), 8)
         THEN /\ run' = [run EXCEPT ![r] = OnComplete(rn1, cachedStocks)]
              /\ store' = st0
         ELSE IF Len(remaining) = 0
              THEN /\ run' = [run EXCEPT ![r] = OnComplete(rn2, cachedStocks)]
                   /\ store' = Snapshot(cachedStocks, {})
              ELSE /\ run' = [run EXCEPT ![r] = BeginBatch(rn2, 1)]
                   /\ store' = st0
  /\ UNCHANGED << loader, loadedStocks, processedSymbols, isRunning,
                  consecutiveFailures, failureCount >>
  /\ UNCHANGED auxVars

\* the quote source answers an attempt of MegaStockLoader.loadBatchWithRetry
MegaReply(r) ==
  /\ loader = "Mega"
  /\ run[r].pc = "fetch"
  /\ \E reply \in SourceReplies(run[r].inflight) :
       LET rn       == Replied(run[r], reply)
           realData == getMultipleStocksData(reply)
           ok       == Len(realData) > 0
           all      == rn.allStocks \o ConvertAll(realData)
           last     == rn.i >= NumBatches(rn.symbols)
           rn1      == BatchEnded([rn EXCEPT !.allStocks = all])
           \* onProgress is reached on success only: the error thrown after
           \* the last attempt skips it
           rn2      == IF ok THEN OnProgress(rn1, Len(all), FALSE) ELSE rn1
       IN  IF ~ok /\ rn.attempt < MegaMaxRetries
           THEN /\ run' = [run EXCEPT ![r] = [rn EXCEPT !.pc = "retryDelay"]]
                /\ UNCHANGED store
           ELSE /\ run' = [run EXCEPT ![r] =
                              IF last THEN OnComplete(rn2, all) ELSE [rn2 EXCEPT !.pc = "delay"]]
                /\ store' = IF ok \/ last THEN Snapshot(all, {}) ELSE store
  /\ UNCHANGED << loader, loadedStocks, processedSymbols, isRunning,
                  consecutiveFailures, failureCount, calls >>
  /\ UNCHANGED auxVars

\* the backoff delay ends: the next attempt of the same batch
MegaRetry(r) ==
  /\ loader = "Mega"
  /\ run[r].pc = "retryDelay"
  /\ run' = [run EXCEPT ![r] =
               CallSource([run[r] EXCEPT !.attempt = @ + 1], Batch(run[r].symbols, run[r].i))]
  /\ UNCHANGED << loader, store, loadedStocks, processedSymbols, isRunning,
                  consecutiveFailures, failureCount, calls >>
  /\ UNCHANGED auxVars

\* delay(delayBetweenBatches) ends: the next batch
MegaDelayDone(r) ==
  /\ loader = "Mega"
  /\ run[r].pc = "delay"
  /\ run' = [run EXCEPT ![r] = BeginBatch(run[r], run[r].i + 1)]
  /\ UNCHANGED << loader, store, loadedStocks, processedSymbols, isRunning,
                  consecutiveFailures, failureCount, calls >>
  /\ UNCHANGED auxVars

\* ------------------------------------------------ RobustStockLoader
RobustMaxRetries == 2

\* the consecutive-failure ceiling (10 in the source)
RobustMaxFailures == 2

\* RobustStockLoader.loadAllStocks(allSymbols, ...) up to its first await
RobustStart(r) ==
  /\ loader = "Robust"
  /\ MayCall(r)
  /\ calls' = calls + 1
  /\ LET cachedStocks == CachedStocks(store)
         st0          == StoreAfterRead(store)
         rn0          == [NewRun(store, cachedStocks) EXCEPT !.allStocks = cachedStocks]
         rn1          == IF Len(cachedStocks) > 0
                         THEN OnProgress(rn0, Len(cachedStocks), TRUE)
                         ELSE rn0
         remaining    == getRemainingSymbols(allSymbols(loader), cachedStocks)
         rn2          == [rn1 EXCEPT !.symbols = remaining]
     IN  IF Len(cachedStocks) > 0 /\ CoversThreshold(Len(cachedStocks), Len(allSymbols(loader)), 5)
         THEN /\ run' = [run EXCEPT ![r] = OnComplete(rn1, cachedStocks)]
              /\ store' = st0
         ELSE IF Len(remaining) = 0
              THEN /\ run' = [run EXCEPT ![r] = OnComplete(rn2, cachedStocks)]
                   /\ store' = Snapshot(cachedStocks, {})
              ELSE /\ run' = [run EXCEPT ![r] = BeginBatch(rn2, 1)]
                   /\ store' = st0
  /\ UNCHANGED << loader, loadedStocks, processedSymbols, isRunning,
                  consecutiveFailures, failureCount >>
  /\ UNCHANGED auxVars

\* a catch block that reports every batch failure to onError
CatchAlwaysErrors(rn, all, fc) == [OnError(rn, Len(all), fc) EXCEPT !.pc = "done"]

\* the catch block of the batch loop: with records the run goes on after a
\* longer delay, without any it ends in onError
RobustCatch(rn, all, fc) ==
  IF Len(all) > 0
  THEN [OnProgress(rn, Len(all), FALSE) EXCEPT !.pc = "delay"]
  ELSE [OnError(rn, Len(all), fc) EXCEPT !.pc = "done"]

\* the quote source answers an attempt of RobustStockLoader.loadBatchWithRetry
RobustReply(r) ==
  /\ loader = "Robust"
  /\ run[r].pc = "fetch"
  /\ \E reply \in SourceReplies(run[r].inflight) :
       LET rn       == Replied(run[r], reply)
           realData == getMultipleStocksData(reply)
           ok       == Len(realData) > 0
           all      == rn.allStocks \o ConvertAll(realData)
           last     == rn.i >= NumBatches(rn.symbols)
           rn1      == BatchEnded([rn EXCEPT !.allStocks = all])
           fc1      == IF ok THEN 0 ELSE failureCount + 1
       IN  IF ~ok /\ rn.attempt < RobustMaxRetries
           THEN /\ run' = [run EXCEPT ![r] = [rn EXCEPT !.pc = "retryDelay"]]
                /\ UNCHANGED << store, failureCount >>
           ELSE IF ok
                THEN LET rn2 == OnProgress(rn1, Len(all), FALSE)
                     IN  /\ failureCount' = fc1
                         /\ store' = Snapshot(all, {})
                         /\ run' = [run EXCEPT ![r] =
                                      IF fc1 >= RobustMaxFailures
                                      THEN [OnError(rn2, Len(all), fc1) EXCEPT !.pc = "done"]
                                      ELSE IF last THEN OnComplete(rn2, all)
                                           ELSE [rn2 EXCEPT !.pc = "delay"]]
                ELSE \* the error thrown after the last attempt, caught by the loop
                     /\ failureCount' = fc1
                     /\ UNCHANGED store
                     /\ run' = [run EXCEPT ![r] = RobustCatch(rn1, all, fc1)]
  /\ UNCHANGED << loader, loadedStocks, processedSymbols, isRunning,
                  consecutiveFailures, calls >>
  /\ UNCHANGED auxVars

\* the retry delays end: the next attempt of the same batch
RobustRetry(r) ==
  /\ loader = "Robust"
  /\ run[r].pc = "retryDelay"
  /\ run' = [run EXCEPT ![r] =
               CallSource([run[r] EXCEPT !.attempt = @ + 1], Batch(run[r].symbols, run[r].i))]
  /\ UNCHANGED << loader, store, loadedStocks, processedSymbols, isRunning,
                  consecutiveFailures, failureCount, calls >>
  /\ UNCHANGED auxVars

\* the delay after a batch ends: the next batch, or the end of the loop
RobustDelayDone(r) ==
  /\ loader = "Robust"
  /\ run[r].pc = "delay"
  /\ IF run[r].i < NumBatches(run[r].symbols)
     THEN /\ run' = [run EXCEPT ![r] = BeginBatch(run[r], run[r].i + 1)]
          /\ UNCHANGED store
     ELSE /\ run' = [run EXCEPT ![r] = OnComplete(run[r], run[r].allStocks)]
          /\ store' = Snapshot(run[r].allStocks, {})
  /\ UNCHANGED << loader, loadedStocks, processedSymbols, isRunning,
                  consecutiveFailures, failureCount, calls >>
  /\ UNCHANGED auxVars

\* ------------------------------------------------ SP500Loader
SP500MaxRetries == 3

\* the exported sp500Loader singleton is shared by every caller: a call can be
\* made while another one is under way
MayCallShared(r) ==
  /\ calls < MaxCalls
  /\ ~Active(r)
  /\ \A q \in Runs : q < r => Active(q)

\* this.processedSymbols after a loadFromCache() that derives it from the stocks
ProcessedOf(stocks) == Tickers(stocks)

\* SP500_SYMBOLS.filter(symbol => !this.processedSymbols.has(symbol))
Unprocessed(symbols, processed) == SelectSeq(symbols, LAMBDA s : s \notin processed)

\* SP500Loader.loadAllStocks(...) up to its first await
SP500Call(r) ==
  /\ loader = "SP500"
  /\ calls' = calls + 1
  /\ LET rn0       == NewRun(store, loadedStocks)
         remaining == Unprocessed(allSymbols(loader), processedSymbols)
     IN  IF CoversThreshold(Len(loadedStocks), Len(allSymbols(loader)), 9)
         THEN /\ run' = [run EXCEPT ![r] =
                           OnComplete(OnProgress(rn0, Len(loadedStocks), TRUE), loadedStocks)]
              /\ isRunning' = FALSE
         ELSE IF Len(remaining) = 0
              THEN /\ run' = [run EXCEPT ![r] = OnComplete(rn0, loadedStocks)]
                   /\ isRunning' = FALSE
              ELSE /\ run' = [run EXCEPT ![r] = BeginBatch([rn0 EXCEPT !.symbols = remaining], 1)]
                   /\ isRunning' = TRUE
  /\ UNCHANGED << loader, store, loadedStocks, processedSymbols,
                  consecutiveFailures, failureCount >>
  /\ UNCHANGED auxVars

\* sp500Loader.loadAllStocks is called when no call is under way
SP500Start(r) == MayCall(r) /\ SP500Call(r)

\* sp500Loader.loadAllStocks is called, by a second caller while a call is
\* under way or not
SP500SharedStart(r) == MayCallShared(r) /\ SP500Call(r)

\* the quote source answers an attempt of SP500Loader.loadBatchWithRetry
SP500Reply(r) ==
  /\ loader = "SP500"
  /\ run[r].pc = "fetch"
  /\ \E reply \in SourceReplies(run[r].inflight) :
       LET rn       == Replied(run[r], reply)
           batch    == run[r].inflight
           realData == getMultipleStocksData(reply)
           ok       == Len(realData) > 0
           ls1      == IF ok THEN loadedStocks \o ConvertAll(realData) ELSE loadedStocks
           rn1      == BatchEnded(IF ok THEN OnProgress(rn, Len(ls1), FALSE) ELSE rn)
       IN  IF ~ok /\ rn.attempt < SP500MaxRetries
           THEN /\ run' = [run EXCEPT ![r] = [rn EXCEPT !.pc = "retryDelay"]]
                /\ UNCHANGED << store, loadedStocks, processedSymbols, isRunning >>
           ELSE /\ loadedStocks' = ls1
                /\ processedSymbols' =
                     IF ok THEN processedSymbols \cup SeqToSet(batch) ELSE processedSymbols
                /\ IF rn.i < NumBatches(rn.symbols) /\ isRunning
                   THEN /\ run' = [run EXCEPT ![r] = [rn1 EXCEPT !.pc = "delay"]]
                        /\ UNCHANGED << store, isRunning >>
                   ELSE \* the loop ends: saveToCache(), onComplete, finally
                        /\ run' = [run EXCEPT ![r] = OnComplete(rn1, ls1)]
                        /\ store' = Snapshot(ls1, {})
                        /\ isRunning' = FALSE
  /\ UNCHANGED << loader, consecutiveFailures, failureCount, calls >>
  /\ UNCHANGED auxVars

\* the backoff delay ends: the next attempt of the same batch
SP500Retry(r) ==
  /\ loader = "SP500"
  /\ run[r].pc = "retryDelay"
  /\ run' = [run EXCEPT ![r] =
               CallSource([run[r] EXCEPT !.attempt = @ + 1], Batch(run[r].symbols, run[r].i))]
  /\ UNCHANGED << loader, store, loadedStocks, processedSymbols, isRunning,
                  consecutiveFailures, failureCount, calls >>
  /\ UNCHANGED auxVars

\* delay(delayBetweenBatches) ends: the loop condition reads this.isRunning
SP500DelayDone(r) ==
  /\ loader = "SP500"
  /\ run[r].pc = "delay"
  /\ IF isRunning
     THEN /\ run' = [run EXCEPT ![r] = BeginBatch(run[r], run[r].i + 1)]
          /\ UNCHANGED << store, isRunning >>
     ELSE /\ run' = [run EXCEPT ![r] = OnComplete(run[r], loadedStocks)]
          /\ store' = Snapshot(loadedStocks, {})
          /\ isRunning' = FALSE
  /\ UNCHANGED << loader, loadedStocks, processedSymbols,
                  consecutiveFailures, failureCount, calls >>
  /\ UNCHANGED auxVars

\* ------------------------------------------------ OptimizedLoader
OptimizedMaxRetries == 2

OptimizedMaxBatchRetries == 2

\* the consecutive-failure ceiling (5 in the source; a failed batch adds
\* OptimizedMaxRetries to the counter)
OptimizedMaxConsecutiveFailures == 3

\* processSymbolsOptimized enters the retry loop of batch i
OptimizedBeginBatch(rn, i) ==
  CallSource([rn EXCEPT !.i = i, !.retries = 0, !.attempt = 1], Batch(rn.symbols, i))

\* processSymbolsOptimized after the retry loop of a batch, up to the next
\* await or the end of loadAllStocks; ls is this.loadedStocks
OptimizedAfterWhile(rn, ls, cf, running) ==
  IF cf >= OptimizedMaxConsecutiveFailures
  THEN OnComplete(OnError(rn, Len(ls), cf), ls)
  ELSE IF rn.i < NumBatches(rn.symbols) /\ running
       THEN [rn EXCEPT !.pc = "delay"]
       ELSE OnComplete(rn, ls)

\* OptimizedLoader.loadAllStocks(...) up to its first await
OptimizedStart(r) ==
  /\ loader = "Optimized"
  /\ MayCall(r)
  /\ calls' = calls + 1
  /\ LET rn0       == NewRun(store, loadedStocks)
         remaining == Unprocessed(allSymbols(loader), processedSymbols)
     IN  IF Len(remaining) = 0
         THEN /\ run' = [run EXCEPT ![r] = OnComplete(rn0, loadedStocks)]
              /\ isRunning' = FALSE
         ELSE /\ run' = [run EXCEPT ![r] =
                           OptimizedBeginBatch([rn0 EXCEPT !.symbols = remaining], 1)]
              /\ isRunning' = TRUE
  /\ UNCHANGED << loader, store, loadedStocks, processedSymbols,
                  consecutiveFailures, failureCount >>
  /\ UNCHANGED auxVars

\* an attempt of OptimizedLoader.loadBatchWithRetry is settled with realData
\* (nothing when the call was rejected or the batch timeout won the race), up
\* to the next await; rn is the run after the attempt, batch its symbols
OptimizedSettled(r, rn, batch, realData) ==
       LET ok       == Len(realData) > 0
           ls1      == loadedStocks \o ConvertAll(realData)
           ps1      == processedSymbols \cup SeqToSet(batch)
       IN  IF ~ok /\ rn.attempt < OptimizedMaxBatchRetries
           THEN /\ run' = [run EXCEPT ![r] = [rn EXCEPT !.pc = "retryDelay"]]
                /\ UNCHANGED << store, loadedStocks, processedSymbols, isRunning,
                                consecutiveFailures >>
           ELSE IF ok
                THEN LET rn1 == OptimizedAfterWhile(
                                  OnProgress(BatchEnded(rn), Len(ls1), FALSE), ls1, 0, isRunning)
                     IN  /\ loadedStocks' = ls1
                         /\ processedSymbols' = ps1
                         /\ consecutiveFailures' = 0
                         /\ store' = Snapshot(ls1, ps1)
                         /\ run' = [run EXCEPT ![r] = rn1]
                         /\ isRunning' = (isRunning /\ rn1.pc # "done")
                ELSE \* 'No stocks returned from batch' is thrown and caught
                     LET rn1 == [rn EXCEPT !.retries = @ + 1]
                         cf1 == consecutiveFailures + 1
                     IN  /\ consecutiveFailures' = cf1
                         /\ UNCHANGED << store, loadedStocks >>
                         /\ IF rn1.retries < OptimizedMaxRetries
                            THEN /\ run' = [run EXCEPT ![r] = [rn1 EXCEPT !.pc = "outerDelay"]]
                                 /\ UNCHANGED << processedSymbols, isRunning >>
                            ELSE LET rn2 == OptimizedAfterWhile(
                                              BatchEnded([rn1 EXCEPT !.exhausted =
                                                                       @ \cup SeqToSet(batch)]),
                                              loadedStocks, cf1, isRunning)
                                 IN  /\ processedSymbols' = ps1
                                     /\ run' = [run EXCEPT ![r] = rn2]
                                     /\ isRunning' = (isRunning /\ rn2.pc # "done")

\* the quote source answers an attempt of OptimizedLoader.loadBatchWithRetry
\* (in Spec also: the batch timeout fires, which the loader treats alike)
OptimizedReply(r) ==
  /\ loader = "Optimized"
  /\ run[r].pc = "fetch"
  /\ \E reply \in SourceReplies(run[r].inflight) :
       OptimizedSettled(r, Replied(run[r], reply), run[r].inflight,
                        getMultipleStocksData(reply))
  /\ UNCHANGED << loader, failureCount, calls >>
  /\ UNCHANGED auxVars

\* Promise.race: the timeout rejects first; getMultipleStocksData(symbols) is
\* not cancelled and stays outstanding
TimedOut(rn) ==
  [rn EXCEPT !.inflight = <<>>, !.srcFull = FALSE, !.abandoned = @ + 1]

\* the batch timeout fires before the quote source has answered
OptimizedTimeout(r) ==
  /\ loader = "Optimized"
  /\ run[r].pc = "fetch"
  /\ OptimizedSettled(r, TimedOut(run[r]), run[r].inflight, <<>>)
  /\ UNCHANGED << loader, failureCount, calls >>
  /\ UNCHANGED auxVars

\* a call left behind by a timeout is answered at last; nobody reads the answer
AbandonedSettles(r) ==
  /\ loader = "Optimized"
  /\ run[r].abandoned > 0
  /\ run' = [run EXCEPT ![r].abandoned = @ - 1]
  /\ UNCHANGED << loader, store, loadedStocks, processedSymbols, isRunning,
                  consecutiveFailures, failureCount, calls >>
  /\ UNCHANGED auxVars

\* the delay inside loadBatchWithRetry ends: the next attempt
OptimizedRetry(r) ==
  /\ loader = "Optimized"
  /\ run[r].pc = "retryDelay"
  /\ run' = [run EXCEPT ![r] =
               CallSource([run[r] EXCEPT !.attempt = @ + 1], Batch(run[r].symbols, run[r].i))]
  /\ UNCHANGED << loader, store, loadedStocks, processedSymbols, isRunning,
                  consecutiveFailures, failureCount, calls >>
  /\ UNCHANGED auxVars

\* the backoff delay of the batch retry loop ends: the loop condition reads
\* this.isRunning
OptimizedOuterRetry(r) ==
  /\ loader = "Optimized"
  /\ run[r].pc = "outerDelay"
  /\ LET rn1 == IF isRunning
                THEN CallSource([run[r] EXCEPT !.attempt = 1], Batch(run[r].symbols, run[r].i))
                ELSE OptimizedAfterWhile(BatchEnded(run[r]), loadedStocks,
                                         consecutiveFailures, isRunning)
     IN  /\ run' = [run EXCEPT ![r] = rn1]
         /\ isRunning' = (isRunning /\ rn1.pc # "done")
  /\ UNCHANGED << loader, store, loadedStocks, processedSymbols,
                  consecutiveFailures, failureCount, calls >>
  /\ UNCHANGED auxVars

\* delay(delayBetweenBatches) ends: the loop condition reads this.isRunning
OptimizedDelayDone(r) ==
  /\ loader = "Optimized"
  /\ run[r].pc = "delay"
  /\ IF isRunning
     THEN /\ run' = [run EXCEPT ![r] = OptimizedBeginBatch(run[r], run[r].i + 1)]
          /\ UNCHANGED isRunning
     ELSE /\ run' = [run EXCEPT ![r] = OnComplete(run[r], loadedStocks)]
          /\ isRunning' = FALSE
  /\ UNCHANGED << loader, store, loadedStocks, processedSymbols,
                  consecutiveFailures, failureCount, calls >>
  /\ UNCHANGED auxVars

\* ------------------------------------------------ stop, clearCache, reload
HasStop(l) == l \in { "SP500", "Optimized", "Smart" }

\* stop(): this.isRunning = false
Stop ==
  /\ HasStop(loader)
  /\ isRunning
  /\ isRunning' = FALSE
  /\ run' = [r \in Runs |->
               IF Active(r) /\ ~run[r].stopped
               THEN [run[r] EXCEPT !.stopped = TRUE,
                                   !.stopBatch = IF run[r].pc = "delay" THEN 0 ELSE run[r].i]
               ELSE run[r]]
  /\ UNCHANGED << loader, store, loadedStocks, processedSymbols,
                  consecutiveFailures, failureCount, calls >>
  /\ UNCHANGED auxVars

\* clearCache(): the entry is removed; the loaders that keep the stocks in the
\* instance also empty loadedStocks and processedSymbols
ClearCache ==
  /\ loader # "Batch"
  /\ store.present \/ loadedStocks # <<>> \/ processedSymbols # {}
  /\ store' = NoSnapshot
  /\ loadedStocks' = <<>>
  /\ processedSymbols' = {}
  /\ run' = [r \in Runs |->
               IF Active(r)
               THEN [run[r] EXCEPT !.cleared = @ \cup Tickers(run[r].allStocks)
                                                  \cup Tickers(loadedStocks)]
               ELSE run[r]]
  /\ UNCHANGED << loader, isRunning, consecutiveFailures, failureCount, calls >>
  /\ UNCHANGED auxVars

\* the loader's constructor: loadFromCache()
ConstructedStocks(l, s) ==
  IF l = "SP500" THEN CachedStocks(s)
  ELSE IF l = "Optimized" THEN s.stocks
  ELSE <<>>

ConstructedProcessed(l, s) ==
  IF l = "SP500" THEN ProcessedOf(CachedStocks(s))
  ELSE IF l = "Optimized" THEN s.processed
  ELSE {}

ConstructedStore(l, s) ==
  IF l \in { "Optimized", "Batch" } THEN s ELSE StoreAfterRead(s)

\* the page is loaded again: a new instance is constructed over the same store
Reload ==
  /\ \A r \in Runs : ~Active(r)
  /\ calls > 0
  /\ loadedStocks' = ConstructedStocks(loader, store)
  /\ processedSymbols' = ConstructedProcessed(loader, store)
  /\ store' = ConstructedStore(loader, store)
  /\ isRunning' = FALSE
  /\ consecutiveFailures' = 0
  /\ failureCount' = 0
  /\ run' = [r \in Runs |-> IdleRun]
  /\ UNCHANGED << loader, calls >>
  /\ UNCHANGED auxVars

\* what the page and the clock do to the loader
Environment == CacheExpires \/ Stop \/ ClearCache \/ Reload

NextPersistent ==
  \E r \in Runs : PersistentStart(r) \/ PersistentReply(r) \/ PersistentRetry(r)

NextBatch ==
  \E r \in Runs : BatchStart(r) \/ BatchReply(r) \/ BatchRetry(r) \/ BatchDelayDone(r)

NextMega ==
  \E r \in Runs : MegaStart(r) \/ MegaReply(r) \/ MegaRetry(r) \/ MegaDelayDone(r)

NextRobust ==
  \E r \in Runs : RobustStart(r) \/ RobustReply(r) \/ RobustRetry(r) \/ RobustDelayDone(r)

SP500Steps ==
  \E r \in Runs : SP500Reply(r) \/ SP500Retry(r) \/ SP500DelayDone(r)

NextSP500 == (\E r \in Runs : SP500Start(r)) \/ SP500Steps

NextOptimized ==
  \E r \in Runs : \/ OptimizedStart(r) \/ OptimizedReply(r) \/ OptimizedRetry(r)
                  \/ OptimizedOuterRetry(r) \/ OptimizedDelayDone(r)

\* every loader class, one instance, its calls following each other
Next ==
  \/ Environment
  \/ NextPersistent
  \/ NextBatch
  \/ NextMega
  \/ NextRobust
  \/ NextSP500
  \/ NextOptimized

Spec == Init /\ [][Next]_vars

\* the exported sp500Loader singleton with two callers: a call can be made
\* while another one is under way (clearCache is exercised in Spec)
InitShared == Init /\ loader = "SP500"

NextShared ==
  \/ CacheExpires
  \/ Stop
  \/ Reload
  \/ \E r \in Runs : SP500SharedStart(r)
  \/ SP500Steps

SpecShared == InitShared /\ [][NextShared]_vars

\* the OptimizedLoader with its batch timeout told apart from an answer
InitTimeout == Init /\ loader = "Optimized"

NextTimeout ==
  \/ Stop
  \/ \E r \in Runs : \/ OptimizedStart(r) \/ OptimizedReply(r) \/ OptimizedTimeout(r)
                      \/ OptimizedRetry(r) \/ OptimizedOuterRetry(r)
                      \/ OptimizedDelayDone(r) \/ AbandonedSettles(r)

SpecTimeout == InitTimeout /\ [][NextTimeout]_vars

\* the PersistentStockLoader and the SP500Loader over a Progress Store whose
\* every read and write throws
InitNoStore ==
  /\ loader \in { "Persistent", "SP500" }
  /\ store = Unavailable
  /\ loadedStocks = <<>>
  /\ processedSymbols = {}
  /\ isRunning = FALSE
  /\ consecutiveFailures = 0
  /\ failureCount = 0
  /\ run = [r \in Runs |-> IdleRun]
  /\ calls = 0
  /\ quote = NoQuote
  /\ ledger = NoLedger
  /\ client = NoClient
  /\ server = NoServer

NextNoStore ==
  \/ Stop
  \/ Reload
  \/ NextPersistent
  \/ NextSP500

SpecNoStore == InitNoStore /\ [][NextNoStore]_vars

\* the symbol list of an earlier load on the same store key: one symbol of
\* the later request and symbols that are not in it
OtherList ==
  << SymbolPool[1], SymbolPool[Len(SymbolPool) - 1], SymbolPool[Len(SymbolPool)] >>

\* what an earlier loadAllStocks(OtherList, ...) can have left in the store:
\* nothing, or the records it fetched
EarlierSnapshots ==
  { NoSnapshot } \cup
  { [NoSnapshot EXCEPT !.present = TRUE,
                       !.stocks = [k \in 1..Len(d) |-> convertToStock([symbol |-> d[k]])]] :
      d \in SubLists(OtherList) \ { <<>> } }

\* loadAllStocks(allSymbols, ...) of the loaders that take the symbol list as
\* an argument, on a store an earlier load with another list has written
InitOtherList ==
  /\ loader \in { "Persistent", "Mega", "Robust" }
  /\ store \in EarlierSnapshots
  /\ loadedStocks = <<>>
  /\ processedSymbols = {}
  /\ isRunning = FALSE
  /\ consecutiveFailures = 0
  /\ failureCount = 0
  /\ run = [r \in Runs |-> IdleRun]
  /\ calls = 0
  /\ quote = NoQuote
  /\ ledger = NoLedger
  /\ client = NoClient
  /\ server = NoServer

NextOtherList ==
  \/ CacheExpires
  \/ NextPersistent
  \/ NextMega
  \/ NextRobust

SpecOtherList == InitOtherList /\ [][NextOtherList]_vars

\* ------------------------------------------------ SmartLoader
\* the consecutive-failure ceiling (3 in the source; a failed batch adds one)
SmartMaxConsecutiveFailures == 2

\* processSymbolsSmart after the retry loop of a batch (maxRetries = 1: one
\* attempt), up to the next await or the end of loadAllStocks
SmartAfterWhile(rn, ls, cf, running) ==
  IF cf >= SmartMaxConsecutiveFailures
  THEN OnComplete(OnError(rn, Len(ls), cf), ls)
  ELSE IF rn.i < NumBatches(rn.symbols) /\ running
       THEN [rn EXCEPT !.pc = "delay"]
       ELSE OnComplete(rn, ls)

\* SmartLoader.loadAllStocks(...) up to its first await
SmartStart(r) ==
  /\ loader = "Smart"
  /\ MayCall(r)
  /\ calls' = calls + 1
  /\ LET rn0       == NewRun(store, loadedStocks)
         remaining == Unprocessed(allSymbols(loader), processedSymbols)
     IN  IF Len(remaining) = 0
         THEN /\ run' = [run EXCEPT ![r] = OnComplete(rn0, loadedStocks)]
              /\ isRunning' = FALSE
         ELSE /\ run' = [run EXCEPT ![r] =
                           CallSource([rn0 EXCEPT !.symbols = remaining, !.i = 1,
                                                  !.attempt = 1],
                                      Batch(remaining, 1))]
              /\ isRunning' = TRUE
  /\ UNCHANGED << loader, store, loadedStocks, processedSymbols,
                  consecutiveFailures, failureCount >>
  /\ UNCHANGED auxVars

\* loadBatchWithTimeout is settled with realData (nothing when the call was
\* rejected or the batch timeout won the race), up to the next await
SmartSettled(r, rn, batch, realData) ==
  LET ok  == Len(realData) > 0
      ls1 == loadedStocks \o ConvertAll(realData)
      ps1 == processedSymbols \cup SeqToSet(batch)
  IN  IF ok
      THEN LET rn1 == SmartAfterWhile(OnProgress(BatchEnded(rn), Len(ls1), FALSE),
                                      ls1, 0, isRunning)
           IN  /\ loadedStocks' = ls1
               /\ processedSymbols' = ps1
               /\ consecutiveFailures' = 0
               /\ store' = Snapshot(ls1, ps1)
               /\ run' = [run EXCEPT ![r] = rn1]
               /\ isRunning' = (isRunning /\ rn1.pc # "done")
      ELSE \* 'No stocks returned from batch' is thrown and caught: the batch
           \* is skipped and its symbols are marked processed
           LET cf1 == consecutiveFailures + 1
               rn1 == SmartAfterWhile(
                        BatchEnded([rn EXCEPT !.exhausted = @ \cup SeqToSet(batch)]),
                        loadedStocks, cf1, isRunning)
           IN  /\ consecutiveFailures' = cf1
               /\ processedSymbols' = ps1
               /\ run' = [run EXCEPT ![r] = rn1]
               /\ isRunning' = (isRunning /\ rn1.pc # "done")
               /\ UNCHANGED << store, loadedStocks >>

\* the quote source answers before the batch timeout
SmartReply(r) ==
  /\ loader = "Smart"
  /\ run[r].pc = "fetch"
  /\ \E reply \in SourceReplies(run[r].inflight) :
       SmartSettled(r, Replied(run[r], reply), run[r].inflight,
                    getMultipleStocksData(reply))
  /\ UNCHANGED << loader, failureCount, calls >>
  /\ UNCHANGED auxVars

\* Promise.race: the batch timeout rejects first; the call stays outstanding
SmartTimeout(r) ==
  /\ loader = "Smart"
  /\ run[r].pc = "fetch"
  /\ SmartSettled(r, [TimedOut(run[r]) EXCEPT !.pending = @ \cup { run[r].inflight }],
                  run[r].inflight, <<>>)
  /\ UNCHANGED << loader, failureCount, calls >>
  /\ UNCHANGED auxVars

\* dataPromise of a timed-out race is fulfilled at last: nothing awaits it, so
\* the records it carries reach neither loadedStocks nor the store
SmartAbandonedSettles(r) ==
  /\ loader = "Smart"
  /\ \E b \in run[r].pending : \E reply \in SourceReplies(b) :
       run' = [run EXCEPT ![r] =
                 [run[r] EXCEPT
                    !.pending = @ \ { b },
                    !.abandoned = @ - 1,
                    !.resolved = IF Active(r)
                                 THEN @ \cup { getMultipleStocksData(reply)[k].symbol :
                                                 k \in 1..Len(getMultipleStocksData(reply)) }
                                 ELSE @]]
  /\ UNCHANGED << loader, store, loadedStocks, processedSymbols, isRunning,
                  consecutiveFailures, failureCount, calls >>
  /\ UNCHANGED auxVars

\* delay(delayBetweenBatches) ends: the loop condition reads this.isRunning,
\* and the loop breaks when more than 30 s have passed since the call
SmartDelayDone(r) ==
  /\ loader = "Smart"
  /\ run[r].pc = "delay"
  /\ \E timeLimitReached \in BOOLEAN :
       IF isRunning /\ ~timeLimitReached
       THEN /\ run' = [run EXCEPT ![r] =
                         CallSource([run[r] EXCEPT !.i = @ + 1, !.attempt = 1],
                                    Batch(run[r].symbols, run[r].i + 1))]
            /\ UNCHANGED isRunning
       ELSE /\ run' = [run EXCEPT ![r] = OnComplete(run[r], loadedStocks)]
            /\ isRunning' = FALSE
  /\ UNCHANGED << loader, store, loadedStocks, processedSymbols,
                  consecutiveFailures, failureCount, calls >>
  /\ UNCHANGED auxVars

\* resetFailures(): this.consecutiveFailures = 0
SmartResetFailures ==
  /\ loader = "Smart"
  /\ consecutiveFailures > 0
  /\ consecutiveFailures' = 0
  /\ UNCHANGED << loader, store, loadedStocks, processedSymbols, isRunning,
                  failureCount, run, calls >>
  /\ UNCHANGED auxVars

\* one SmartLoader instance, its batch timeout told apart from an answer
InitSmart ==
  /\ loader = "Smart"
  /\ Constructed
  /\ quote = NoQuote
  /\ ledger = NoLedger
  /\ client = NoClient
  /\ server = NoServer

NextSmart ==
  \/ Stop
  \/ SmartResetFailures
  \/ \E r \in Runs : \/ SmartStart(r) \/ SmartReply(r) \/ SmartTimeout(r)
                      \/ SmartAbandonedSettles(r) \/ SmartDelayDone(r)

SpecSmart == InitSmart /\ [][NextSmart]_vars

(***************************************************************************)
(* One quote on its way from the quote source to a consumer:               *)
(* getMultipleStocksData builds a RealStockData from the chart meta,       *)
(* convertToStock turns it into a Stock, the loader saves it and hands it  *)
(* to onComplete.  The HybridStockLoader makes up a Stock when the source  *)
(* gave nothing.                                                           *)
(***************************************************************************)

\* largest value of a valuation field
MaxValuation == 2

ValuationFields == { "pe", "dividendYield", "marketCap" }

\* a field the source left out (undefined), and a field with a number
Absent == [has |-> FALSE, v |-> 0]
Number(n) == [has |-> TRUE, v |-> n]

FieldValues == { Absent } \cup { Number(n) : n \in 0..MaxValuation }

Valuations == [ValuationFields -> FieldValues]

NoValuation == [f \in ValuationFields |-> Absent]

\* `x || 0`: undefined and 0 both give 0
OrZero(x) == IF x.has /\ x.v # 0 THEN x ELSE Number(0)

\* `typeof x === 'number' ? x : 0`
NumberOrZero(x) == IF x.has THEN x ELSE Number(0)

\* the record getMultipleStocksData builds from meta.trailingPE,
\* meta.dividendYield and meta.marketCap
RealStockDataOf(meta) == [f \in ValuationFields |-> OrZero(meta[f])]

\* the valuation fields of convertToStock(realData)
StockOf(realData) == [f \in ValuationFields |-> NumberOrZero(realData[f])]

\* generateMockStocks: Math.random() values, never 0
MockStocks == [ValuationFields -> { Number(n) : n \in 1..MaxValuation }]

InitQuote ==
  /\ loader = "Hybrid"
  /\ Constructed
  /\ ledger = NoLedger
  /\ client = NoClient
  /\ server = NoServer
  /\ \E responded \in BOOLEAN :
       \E meta \in (IF responded THEN Valuations ELSE { NoValuation }) :
         quote = [stage |-> "source", responded |-> responded, meta |-> meta,
                  data |-> NoValuation, stock |-> NoValuation, mock |-> FALSE]

\* getMultipleStocksData maps the source's result to a RealStockData
QuoteFetched ==
  /\ quote.stage = "source"
  /\ quote.responded
  /\ quote' = [quote EXCEPT !.stage = "data", !.data = RealStockDataOf(quote.meta)]
  /\ UNCHANGED << loaderVars, ledger, client, server >>

\* loadBatchWithRetry: realData.map(convertToStock)
QuoteConverted ==
  /\ quote.stage = "data"
  /\ quote' = [quote EXCEPT !.stage = "stock", !.stock = StockOf(quote.data)]
  /\ UNCHANGED << loaderVars, ledger, client, server >>

\* processSymbolsHybrid: no real data for the batch, generateMockStocks(batch)
HybridMock ==
  /\ quote.stage = "source"
  /\ ~quote.responded
  /\ \E m \in MockStocks :
       quote' = [quote EXCEPT !.stage = "stock", !.stock = m, !.mock = TRUE]
  /\ UNCHANGED << loaderVars, ledger, client, server >>

\* saveToCache(allStocks) and onComplete(allStocks)
QuoteDelivered ==
  /\ quote.stage = "stock"
  /\ quote' = [quote EXCEPT !.stage = "delivered"]
  /\ UNCHANGED << loaderVars, ledger, client, server >>

NextQuote == QuoteFetched \/ QuoteConverted \/ HybridMock \/ QuoteDelivered

SpecQuote == InitQuote /\ [][NextQuote]_vars

(***************************************************************************)
(* The practice trading account (tradingStorage.ts).  A JavaScript number  *)
(* is a fraction n/d, NaN, Infinity or -Infinity; null is what             *)
(* JSON.stringify writes for a number that is not finite.                  *)
(***************************************************************************)

\* number of trading operations looked at
MaxTrades == 3

DEFAULT_BALANCE == 10000

RECURSIVE GCD(_, _)
\* greatest common divisor of two naturals, not both 0
GCD(a, b) == IF b = 0 THEN a ELSE GCD(b, a % b)

\* the finite number n/d (d not 0), in lowest terms with d above 0
Fin(n, d) ==
  LET g == GCD(IF n < 0 THEN 0 - n ELSE n, IF d < 0 THEN 0 - d ELSE d)
  IN  IF d < 0 THEN [k |-> "fin", n |-> (0 - n) \div g, d |-> (0 - d) \div g]
                ELSE [k |-> "fin", n |-> n \div g, d |-> d \div g]
NaN == [k |-> "nan", n |-> 0, d |-> 1]
Infinity == [k |-> "inf", n |-> 1, d |-> 1]
NegInfinity == [k |-> "inf", n |-> 0 - 1, d |-> 1]
Null == [k |-> "null", n |-> 0, d |-> 1]

\* ToNumber: null counts as 0 in arithmetic
ToNumber(a) == IF a.k = "null" THEN Fin(0, 1) ELSE a

Sign(n) == IF n > 0 THEN 1 ELSE IF n < 0 THEN 0 - 1 ELSE 0

\* a + b
Plus(a0, b0) ==
  LET a == ToNumber(a0)
      b == ToNumber(b0)
  IN  IF a.k = "nan" \/ b.k = "nan" THEN NaN
      ELSE IF a.k = "inf" /\ b.k = "inf" THEN (IF a.n = b.n THEN a ELSE NaN)
      ELSE IF a.k = "inf" THEN a
      ELSE IF b.k = "inf" THEN b
      ELSE Fin(a.n * b.d + b.n * a.d, a.d * b.d)

\* a * b
Times(a0, b0) ==
  LET a == ToNumber(a0)
      b == ToNumber(b0)
  IN  IF a.k = "nan" \/ b.k = "nan" THEN NaN
      ELSE IF a.k = "inf" \/ b.k = "inf"
           THEN (IF a.n = 0 \/ b.n = 0 THEN NaN
                 ELSE IF Sign(a.n) = Sign(b.n) THEN Infinity ELSE NegInfinity)
      ELSE Fin(a.n * b.n, a.d * b.d)

\* a - b
Minus(a, b) == Plus(a, Times(Fin(0 - 1, 1), b))

\* a / b
DividedBy(a0, b0) ==
  LET a == ToNumber(a0)
      b == ToNumber(b0)
  IN  IF a.k = "nan" \/ b.k = "nan" THEN NaN
      ELSE IF a.k = "inf" /\ b.k = "inf" THEN NaN
      ELSE IF a.k = "inf" THEN (IF Sign(a.n) * Sign(b.n) < 0 THEN NegInfinity ELSE Infinity)
      ELSE IF b.k = "inf" THEN Fin(0, 1)
      ELSE IF b.n = 0
           THEN (IF a.n = 0 THEN NaN ELSE IF a.n > 0 THEN Infinity ELSE NegInfinity)
      ELSE Fin(a.n * b.d, a.d * b.n)

\* a < b: false as soon as one side is NaN
LessThan(a0, b0) ==
  LET a == ToNumber(a0)
      b == ToNumber(b0)
      rank(x) == IF x.k = "inf" THEN Sign(x.n) ELSE 0
  IN  /\ a.k # "nan"
      /\ b.k # "nan"
      /\ \/ rank(a) < rank(b)
         \/ a.k = "fin" /\ b.k = "fin" /\ a.n * b.d < b.n * a.d

\* a === b on numbers
StrictEquals(a, b) ==
  \/ a.k = "null" /\ b.k = "null"
  \/ a.k = "inf" /\ b.k = "inf" /\ a.n = b.n
  \/ a.k = "fin" /\ b.k = "fin" /\ a.n * b.d = b.n * a.d

\* JSON.parse(JSON.stringify(x)) of a number: NaN and the infinities become null
Json(a) == IF a.k = "fin" THEN a ELSE Null

\* JSON.parse(JSON.stringify(account)); the strings of the account (name,
\* purchaseDate, lastUpdated) are left out
JsonAccount(account) ==
  [balance  |-> Json(account.balance),
   holdings |-> [j \in 1..Len(account.holdings) |->
                   [ticker           |-> account.holdings[j].ticker,
                    shares           |-> Json(account.holdings[j].shares),
                    avgPurchasePrice |-> Json(account.holdings[j].avgPurchasePrice)]]]

DefaultAccount == [balance |-> Fin(DEFAULT_BALANCE, 1), holdings |-> <<>>]

NothingStored == [present |-> FALSE, account |-> DefaultAccount]

\* loadTradingAccount() over the entry `stored`
loadTradingAccount(stored) ==
  IF stored.present THEN stored.account ELSE DefaultAccount

\* what saveTradingAccount(account) leaves under STORAGE_KEY
saveTradingAccount(account) == [present |-> TRUE, account |-> JsonAccount(account)]

\* a findIndex that finds no entry
NotFound(holdings, ticker) == 0

\* account.holdings.findIndex(h => h.ticker === ticker), 0 when there is none
findIndex(holdings, ticker) ==
  IF \E j \in 1..Len(holdings) : holdings[j].ticker = ticker
  THEN CHOOSE j \in 1..Len(holdings) :
         /\ holdings[j].ticker = ticker
         /\ \A h \in 1..(j - 1) : holdings[h].ticker # ticker
  ELSE 0

\* holdings.filter(h => h.ticker !== ticker)
WithoutTicker(holdings, ticker) ==
  SelectSeq(holdings, LAMBDA h : h.ticker # ticker)

addFunds(account, amount) ==
  [account EXCEPT !.balance = Plus(account.balance, amount)]

\* buyStock: the updated account; called when totalCost > balance is false
buyStock(account, ticker, shares, pricePerShare) ==
  LET totalCost == Times(shares, pricePerShare)
      j         == findIndex(account.holdings, ticker)
      existing  == account.holdings[j]
      totalShares == Plus(existing.shares, shares)
      totalValue  == Plus(Times(existing.shares, existing.avgPurchasePrice), totalCost)
      updatedHoldings ==
        IF j > 0
        THEN [account.holdings EXCEPT
                ![j] = [existing EXCEPT !.shares = totalShares,
                                        !.avgPurchasePrice = DividedBy(totalValue, totalShares)]]
        ELSE Append(account.holdings,
                    [ticker |-> ticker, shares |-> shares, avgPurchasePrice |-> pricePerShare])
  IN  [balance |-> Minus(account.balance, totalCost), holdings |-> updatedHoldings]

\* a buyStock that refuses nothing
NeverRefused(account, shares, pricePerShare) == FALSE

\* buyStock returns null: insufficient funds
BuyRefused(account, shares, pricePerShare) ==
  LessThan(account.balance, Times(shares, pricePerShare))

\* sellStock returns null: the stock is not held, or not enough of it
SellRefused(account, ticker, shares) ==
  LET j == findIndex(account.holdings, ticker)
  IN  j = 0 \/ LessThan(account.holdings[j].shares, shares)

\* sellStock: the updated account
sellStock(account, ticker, shares, pricePerShare) ==
  LET j       == findIndex(account.holdings, ticker)
      holding == account.holdings[j]
      updatedHoldings ==
        IF StrictEquals(holding.shares, shares)
        THEN WithoutTicker(account.holdings, ticker)
        ELSE [account.holdings EXCEPT ![j] = [holding EXCEPT !.shares = Minus(holding.shares, shares)]]
  IN  [balance  |-> Plus(account.balance, Times(shares, pricePerShare)),
       holdings |-> updatedHoldings]

\* the stocks on the page: ticker and price; a price the source left out is 0
Traded == { << "AAA", Fin(2, 1) >>, << "BBB", Fin(0, 1) >> }

\* amounts the add-funds dialog lets through (a number above 0)
FundAmounts == { Fin(5, 1) }

\* share counts typed into the investment dialog
ShareCounts == { Fin(1, 1), Fin(2, 1) }

\* amounts of money typed into the investment dialog
InvestAmounts == { Fin(2, 1) }

\* InvestmentModal in shares mode: the cost shown is shares * price, and
\* handleInvest lets it through when it is above 0 and within the balance
SharesMode(balance) ==
  { x \in { << t[1], sh, t[2] >> : t \in Traded, sh \in ShareCounts } :
      /\ LessThan(Fin(0, 1), Times(x[2], x[3]))
      /\ ~LessThan(balance, Times(x[2], x[3])) }

\* InvestmentModal in amount mode: the shares are amount / stock.price, and
\* handleInvest lets the amount through when it is within the balance
AmountMode(balance) ==
  { << t[1], DividedBy(a, t[2]), t[2] >> :
      t \in Traded, a \in { b \in InvestAmounts : ~LessThan(balance, b) } }

\* the ticker, shares and price handleInvest passes to buyStock
Investments(balance) == SharesMode(balance) \cup AmountMode(balance)

\* the trading page is opened: useState's initial account, nothing stored
InitLedger ==
  /\ loader = "Trading"
  /\ Constructed
  /\ quote = NoQuote
  /\ client = NoClient
  /\ server = NoServer
  /\ ledger = [stage |-> "open", account |-> DefaultAccount, stored |-> NothingStored,
               op |-> "none", ok |-> FALSE, returned |-> DefaultAccount, n |-> 0]

\* an operation returned `updated` after saveTradingAccount(updated)
Updated(op, updated) ==
  ledger' = [ledger EXCEPT !.account = updated, !.stored = saveTradingAccount(updated),
                            !.op = op, !.ok = TRUE, !.returned = updated, !.n = @ + 1]

\* an operation returned null
Refused(op) ==
  ledger' = [ledger EXCEPT !.op = op, !.ok = FALSE, !.n = @ + 1]

\* the mount effect: setTradingAccount(loadTradingAccount())
LoadAccount ==
  /\ ledger.stage = "open"
  /\ ledger.op # "load"
  /\ ledger' = [ledger EXCEPT !.account = loadTradingAccount(ledger.stored),
                              !.op = "load", !.ok = TRUE,
                              !.returned = loadTradingAccount(ledger.stored)]
  /\ UNCHANGED << loaderVars, quote, client, server >>

\* handleAddFunds(amount)
AddFunds ==
  /\ ledger.stage = "open"
  /\ ledger.n < MaxTrades
  /\ \E amount \in FundAmounts : Updated("addFunds", addFunds(ledger.account, amount))
  /\ UNCHANGED << loaderVars, quote, client, server >>

\* handleInvest(shares, totalCost) on a stock of the page
BuyStock ==
  /\ ledger.stage = "open"
  /\ ledger.n < MaxTrades
  /\ \E x \in Investments(ledger.account.balance) :
       IF BuyRefused(ledger.account, x[2], x[3])
       THEN Refused("buyStock")
       ELSE Updated("buyStock", buyStock(ledger.account, x[1], x[2], x[3]))
  /\ UNCHANGED << loaderVars, quote, client, server >>

\* sellStock(account, ticker, shares, pricePerShare)
SellStock ==
  /\ ledger.stage = "open"
  /\ ledger.n < MaxTrades
  /\ \E t \in Traded, shares \in ShareCounts :
       IF SellRefused(ledger.account, t[1], shares)
       THEN Refused("sellStock")
       ELSE Updated("sellStock", sellStock(ledger.account, t[1], shares, t[2]))
  /\ UNCHANGED << loaderVars, quote, client, server >>

\* handleResetAccount()
ResetAccount ==
  /\ ledger.stage = "open"
  /\ ledger.n < MaxTrades
  /\ Updated("resetTradingAccount", DefaultAccount)
  /\ UNCHANGED << loaderVars, quote, client, server >>

NextLedger == LoadAccount \/ AddFunds \/ BuyStock \/ SellStock \/ ResetAccount

SpecLedger == InitLedger /\ [][NextLedger]_vars

(***************************************************************************)
(* The functions of tradingStorage.ts called one after another, each call  *)
(* on the account the call before it returned (as App does through         *)
(* setTradingAccount), starting from the default account.                  *)
(***************************************************************************)

\* the tickers traded
TradeTickers == { "AAA", "BBB" }

\* amounts above 0 passed to addFunds; Infinity is what a sum of amounts
\* beyond Number.MAX_VALUE is, and what parseFloat("Infinity") gives
PositiveAmounts == { Fin(5, 1), Infinity }

\* share counts above 0: some within the default balance, one beyond it
PositiveShares == { Fin(1, 1), Fin(2, 1), Fin(6000, 1), Infinity }

\* prices per share above 0
PositivePrices == { Fin(1, 1), Fin(2, 1) }

InitTrading ==
  /\ loader = "Trading"
  /\ Constructed
  /\ quote = NoQuote
  /\ client = NoClient
  /\ server = NoServer
  /\ ledger = [stage |-> "calls", account |-> DefaultAccount, stored |-> NothingStored,
               op |-> "none", ok |-> FALSE, n |-> 0,
               before |-> DefaultAccount, storedBefore |-> NothingStored,
               ticker |-> "", shares |-> Fin(0, 1), price |-> Fin(0, 1)]

\* a call of `op` with the given arguments is made on the current account
Called(op, ticker, shares, price) ==
  [ledger EXCEPT !.op = op, !.n = @ + 1,
                 !.before = ledger.account, !.storedBefore = ledger.stored,
                 !.ticker = ticker, !.shares = shares, !.price = price]

\* the call returned `updated` after saveTradingAccount(updated)
ReturnedAccount(call, updated) ==
  [call EXCEPT !.ok = TRUE, !.account = updated, !.stored = saveTradingAccount(updated)]

\* the call returned null: nothing is saved, the caller keeps its account
ReturnedNull(call) == [call EXCEPT !.ok = FALSE]

\* addFunds(account, amount)
CallAddFunds ==
  /\ ledger.stage = "calls"
  /\ ledger.n < MaxTrades
  /\ \E amount \in PositiveAmounts :
       ledger' = ReturnedAccount(Called("addFunds", "", amount, Fin(0, 1)),
                                 addFunds(ledger.account, amount))
  /\ UNCHANGED << loaderVars, quote, client, server >>

\* buyStock(account, ticker, name, shares, pricePerShare)
CallBuyStock ==
  /\ ledger.stage = "calls"
  /\ ledger.n < MaxTrades
  /\ \E ticker \in TradeTickers, shares \in PositiveShares, price \in PositivePrices :
       ledger' = IF BuyRefused(ledger.account, shares, price)
                 THEN ReturnedNull(Called("buyStock", ticker, shares, price))
                 ELSE ReturnedAccount(Called("buyStock", ticker, shares, price),
                                      buyStock(ledger.account, ticker, shares, price))
  /\ UNCHANGED << loaderVars, quote, client, server >>

\* sellStock(account, ticker, shares, pricePerShare)
CallSellStock ==
  /\ ledger.stage = "calls"
  /\ ledger.n < MaxTrades
  /\ \E ticker \in TradeTickers, shares \in PositiveShares, price \in PositivePrices :
       ledger' = IF SellRefused(ledger.account, ticker, shares)
                 THEN ReturnedNull(Called("sellStock", ticker, shares, price))
                 ELSE ReturnedAccount(Called("sellStock", ticker, shares, price),
                                      sellStock(ledger.account, ticker, shares, price))
  /\ UNCHANGED << loaderVars, quote, client, server >>

NextTrading == CallAddFunds \/ CallBuyStock \/ CallSellStock

SpecTrading == InitTrading /\ [][NextTrading]_vars

\* the calls without addFunds: buyStock and sellStock only
NextBuySell == CallBuyStock \/ CallSellStock

SpecBuySell == InitTrading /\ [][NextBuySell]_vars

(***************************************************************************)
(* The ServerStockLoader singleton (serverStockLoader.ts): loadAllStocks   *)
(* asks the server for its status and then for all stocks, and on failure  *)
(* calls itself again after a delay while this.retryCount is below         *)
(* maxRetries.                                                             *)
(***************************************************************************)

ServerMaxRetries == 3

\* number of resetRetries() calls looked at
MaxResets == 1

\* the top-level callers of serverStockLoader.loadAllStocks in App: the mount
\* effect and handleRetryLoading
Callers == { 1, 2 }

IdleCall ==
  [ pc          |-> "idle",  \* idle, status, fetch, delay, done
    attempts    |-> 0,       \* executions of the body of loadAllStocks
    nProgress   |-> 0,       \* onProgress calls
    nComplete   |-> 0,       \* onComplete calls
    nError      |-> 0,       \* onError calls
    resetDuring |-> FALSE ]  \* resetRetries() was called while the call was under way

InitClient ==
  /\ loader = "Server"
  /\ Constructed
  /\ quote = NoQuote
  /\ ledger = NoLedger
  /\ server = NoServer
  /\ client = [stage |-> "loader", retryCount |-> 0, isRunning |-> FALSE,
               resets |-> 0, call |-> [c \in Callers |-> IdleCall]]

\* the body of loadAllStocks is entered: this.isRunning = true, then
\* await this.checkServerStatus()
EnterLoadAllStocks(cl, c) ==
  [cl EXCEPT !.isRunning = TRUE,
             !.call[c].pc = "status",
             !.call[c].attempts = @ + 1]

\* a catch block that retries without looking at retryCount
CatchAlwaysRetries(cl, c) == [cl EXCEPT !.call[c].pc = "delay"]

\* the catch block: another attempt while retryCount < maxRetries, else
\* onError and return [] through the finally blocks
CatchBlock(cl, c) ==
  IF cl.retryCount < ServerMaxRetries
  THEN [cl EXCEPT !.retryCount = @ + 1, !.call[c].pc = "delay"]
  ELSE [cl EXCEPT !.call[c].nError = @ + 1, !.call[c].pc = "done",
                  !.isRunning = FALSE]

\* serverStockLoader.loadAllStocks(onProgress, onComplete, onError) is called
ClientCall(c) ==
  /\ client.stage = "loader"
  /\ client.call[c].pc = "idle"
  /\ client' = EnterLoadAllStocks(client, c)
  /\ UNCHANGED << loaderVars, quote, ledger, server >>

\* checkServerStatus() returns: true when the server answered ready, false
\* when it answered not ready, did not answer, or the request failed
ClientStatus(c) ==
  /\ client.stage = "loader"
  /\ client.call[c].pc = "status"
  /\ \E isServerReady \in BOOLEAN :
       client' = IF isServerReady
                 THEN [client EXCEPT !.call[c].nProgress = @ + 1, !.call[c].pc = "fetch"]
                 ELSE CatchBlock(client, c)
  /\ UNCHANGED << loaderVars, quote, ledger, server >>

\* stockAPIService.getAllStocks() returns stocks, or returns none or throws
ClientFetched(c) ==
  /\ client.stage = "loader"
  /\ client.call[c].pc = "fetch"
  /\ \E received \in BOOLEAN :
       client' = IF received
                 THEN [client EXCEPT !.call[c].nProgress = @ + 1,
                                     !.call[c].nComplete = @ + 1,
                                     !.call[c].pc = "done",
                                     !.isRunning = FALSE]
                 ELSE CatchBlock(client, c)
  /\ UNCHANGED << loaderVars, quote, ledger, server >>

\* delay(retryDelay) ends: return this.loadAllStocks(onProgress, onComplete, onError)
ClientDelayDone(c) ==
  /\ client.stage = "loader"
  /\ client.call[c].pc = "delay"
  /\ client' = EnterLoadAllStocks(client, c)
  /\ UNCHANGED << loaderVars, quote, ledger, server >>

\* resetRetries(): this.retryCount = 0
ClientResetRetries ==
  /\ client.stage = "loader"
  /\ client.resets < MaxResets
  /\ client.retryCount > 0
  /\ client' = [client EXCEPT
                  !.retryCount = 0,
                  !.resets = @ + 1,
                  !.call = [c \in Callers |->
                              IF client.call[c].pc \in { "status", "fetch", "delay" }
                              THEN [client.call[c] EXCEPT !.resetDuring = TRUE]
                              ELSE client.call[c]]]
  /\ UNCHANGED << loaderVars, quote, ledger, server >>

\* stop(): this.isRunning = false
ClientStop ==
  /\ client.stage = "loader"
  /\ client.isRunning
  /\ client' = [client EXCEPT !.isRunning = FALSE]
  /\ UNCHANGED << loaderVars, quote, ledger, server >>

NextClient ==
  \/ ClientResetRetries
  \/ ClientStop
  \/ \E c \in Callers : \/ ClientCall(c) \/ ClientStatus(c)
                        \/ ClientFetched(c) \/ ClientDelayDone(c)

SpecClient == InitClient /\ [][NextClient]_vars

(***************************************************************************)
(* The stock API server (src/server/index.ts): the in-memory stockCache,   *)
(* the cache file, initializeStockData at start-up and the routes          *)
(* GET /api/stocks, GET /api/status and POST /api/refresh.                 *)
(***************************************************************************)

\* number of POST /api/refresh requests that can be in flight at once
MaxRefreshes == 2

\* STOCK_SYMBOLS of the server
ServerSymbols == SubSeq(SymbolPool, 1, 2)

\* what loadStocksInBatches(STOCK_SYMBOLS, 5) can return: the stocks of the
\* symbols whose fetch succeeded, possibly none
Loads == SubLists(ServerSymbols)

\* let stockCache: StockCache | null = null
NullCache == [present |-> FALSE, stocks |-> <<>>]

\* stockCache = { stocks, lastUpdated, totalStocks, version }
CacheOf(stocks) == [present |-> TRUE, stocks |-> stocks]

\* no cache file
NoFile == [present |-> FALSE, stocks |-> <<>>, expired |-> FALSE]

\* loadCache(): the content of the file, null when it is missing or expired
loadCache(file) ==
  IF file.present /\ ~file.expired THEN CacheOf(file.stocks) ELSE NullCache

\* saveCache(stocks): the file is written, or the write fails and is logged
saveCache(file, stocks, written) ==
  IF written THEN [present |-> TRUE, stocks |-> stocks, expired |-> FALSE] ELSE file

\* stockCache && stockCache.stocks.length > 0
IsReady(cache) == cache.present /\ Len(cache.stocks) > 0

\* a refresh that replaces stockCache whatever it loaded
ReplacedCache(cache, stocks) == CacheOf(stocks)

\* stockCache after loadStocksInBatches returned stocks, in
\* initializeStockData and in POST /api/refresh alike
RefreshedCache(cache, stocks) ==
  IF Len(stocks) > 0 THEN CacheOf(stocks) ELSE cache

\* the answer of GET /api/stocks
GetStocksAnswer(cache) ==
  IF ~IsReady(cache) THEN [status |-> 503, data |-> <<>>]
  ELSE [status |-> 200, data |-> cache.stocks]

\* data.ready of GET /api/status
StatusReady(cache) == IsReady(cache)

NoAnswer == [route |-> "none", status |-> 0, loaded |-> 0,
             before |-> NullCache, data |-> <<>>, ready |-> FALSE]

\* the process before startServer(): any cache file an earlier process left
InitServer ==
  /\ loader = "API"
  /\ Constructed
  /\ quote = NoQuote
  /\ ledger = NoLedger
  /\ client = NoClient
  /\ \E stocks \in Loads \ { <<>> }, written \in BOOLEAN :
       server = [stage |-> "process", phase |-> "starting", stockCache |-> NullCache,
                 file |-> saveCache(NoFile, stocks, written), pending |-> 0,
                 wasReady |-> FALSE, answer |-> NoAnswer]

\* stockCache is assigned: the server remembers having been ready
Assigned(sv, cache) ==
  [sv EXCEPT !.stockCache = cache, !.wasReady = @ \/ IsReady(cache)]

\* initializeStockData() up to loadStocksInBatches: stockCache = await loadCache()
ServerStart ==
  /\ server.stage = "process"
  /\ server.phase = "starting"
  /\ LET sv == Assigned(server, loadCache(server.file))
     IN  server' = [sv EXCEPT !.phase = IF IsReady(sv.stockCache) THEN "listening"
                                                                  ELSE "loading"]
  /\ UNCHANGED << loaderVars, quote, ledger, client >>

\* initializeStockData() after loadStocksInBatches returned; app.listen follows
ServerInitLoaded ==
  /\ server.stage = "process"
  /\ server.phase = "loading"
  /\ \E stocks \in Loads, written \in BOOLEAN :
       server' = [Assigned(server, RefreshedCache(server.stockCache, stocks)) EXCEPT
                    !.phase = "listening",
                    !.file = IF Len(stocks) > 0 THEN saveCache(@, stocks, written) ELSE @]
  /\ UNCHANGED << loaderVars, quote, ledger, client >>

\* POST /api/refresh arrives: loadStocksInBatches is started
RefreshRequested ==
  /\ server.stage = "process"
  /\ server.phase = "listening"
  /\ server.pending < MaxRefreshes
  /\ server' = [server EXCEPT !.pending = @ + 1]
  /\ UNCHANGED << loaderVars, quote, ledger, client >>

\* loadStocksInBatches of a refresh returned: the cache is replaced and saved
\* and the request answered, or the request is answered with status 500
RefreshLoaded ==
  /\ server.stage = "process"
  /\ server.pending > 0
  /\ \E stocks \in Loads, written \in BOOLEAN :
       LET cache == RefreshedCache(server.stockCache, stocks)
       IN  server' = [Assigned(server, cache) EXCEPT
                        !.pending = @ - 1,
                        !.file = IF Len(stocks) > 0 THEN saveCache(@, stocks, written) ELSE @,
                        !.answer = [NoAnswer EXCEPT
                                      !.route = "refresh",
                                      !.status = IF Len(stocks) > 0 THEN 200 ELSE 500,
                                      !.loaded = Len(stocks),
                                      !.before = server.stockCache]]
  /\ UNCHANGED << loaderVars, quote, ledger, client >>

\* GET /api/stocks
GetStocks ==
  /\ server.stage = "process"
  /\ server.phase = "listening"
  /\ server' = [server EXCEPT
                  !.answer = [NoAnswer EXCEPT
                                !.route = "stocks",
                                !.status = GetStocksAnswer(server.stockCache).status,
                                !.data = GetStocksAnswer(server.stockCache).data,
                                !.before = server.stockCache]]
  /\ UNCHANGED << loaderVars, quote, ledger, client >>

\* GET /api/status
GetStatus ==
  /\ server.stage = "process"
  /\ server.phase = "listening"
  /\ server' = [server EXCEPT
                  !.answer = [NoAnswer EXCEPT
                                !.route = "status",
                                !.status = 200,
                                !.ready = StatusReady(server.stockCache),
                                !.loaded = Len(server.stockCache.stocks),
                                !.before = server.stockCache]]
  /\ UNCHANGED << loaderVars, quote, ledger, client >>

\* time passes until the cache file is older than CACHE_EXPIRY
FileExpires ==
  /\ server.stage = "process"
  /\ server.file.present
  /\ ~server.file.expired
  /\ server' = [server EXCEPT !.file.expired = TRUE]
  /\ UNCHANGED << loaderVars, quote, ledger, client >>

NextServer ==
  \/ ServerStart
  \/ ServerInitLoaded
  \/ RefreshRequested
  \/ RefreshLoaded
  \/ GetStocks
  \/ GetStatus
  \/ FileExpires

SpecServer == InitServer /\ [][NextServer]_vars

\* ---------------------------------------------------------------- properties
\* the onProgress calls of run r that report a batch, not the cache
BatchProgressCalls(r) ==
  Cardinality({ k \in 1..Len(run[r].progress) : ~run[r].progress[k][2] })

\* C1: with a quote source that returns a record for every requested symbol on
\* every call, an ended run of the PersistentStockLoader or the MegaStockLoader
\* has called onComplete with records for exactly the requested symbols
C1_CompleteUnderNoFailures ==
  \A r \in Runs :
    (loader \in { "Persistent", "Mega" } /\ Ended(r) /\ run[r].srcFull)
      => /\ run[r].nComplete = 1
         /\ Tickers(run[r].complete) = SeqToSet(allSymbols(loader))

\* C2: with a quote source that rejects or returns nothing on every call, an
\* ended run (not stopped) of the SP500Loader, OptimizedLoader or
\* BatchStockLoader has called onError
C2_TotalFailureCallsOnError ==
  \A r \in Runs :
    (/\ loader \in { "SP500", "Optimized", "Batch" }
     /\ Ended(r) /\ ~run[r].stopped
     /\ run[r].nCalls > 0 /\ run[r].srcNone)
      => run[r].nError > 0

\* C3: neither the records given to onComplete nor the checkpoint in the store
\* ever hold two records with the same ticker (SP500Loader,
\* PersistentStockLoader, MegaStockLoader)
C3_NoDuplicateTickers ==
  loader \in { "SP500", "Persistent", "Mega" }
    => /\ NoDuplicates(store.stocks)
       /\ \A r \in Runs : NoDuplicates(run[r].complete)

\* C4: a loadAllStocks call made while the store holds a fresh snapshot with
\* records for S never passes a symbol of S to the quote source
\* (PersistentStockLoader, OptimizedLoader, SP500Loader)
C4_ResumeFromCache ==
  \A r \in Runs :
    loader \in { "Persistent", "Optimized", "SP500" }
      => run[r].requested \cap run[r].snapshot = {}

\* C4 witness: a PersistentStockLoader run resumed from a fresh snapshot and
\* called the quote source for symbols outside it
C4_Witness ==
  \E r \in Runs :
    /\ loader = "Persistent"
    /\ run[r].snapshot # {}
    /\ run[r].requested # {}
    /\ run[r].requested \cap run[r].snapshot = {}

\* C5: a loadAllStocks call made while the snapshot in the store is older than
\* the max age starts from no record and fetches every requested symbol
\* (OptimizedLoader, SP500Loader)
C5_StaleSnapshotIsAbsent ==
  \A r \in Runs :
    (loader \in { "Optimized", "SP500" } /\ run[r].stale)
      => /\ run[r].cached = {}
         /\ run[r].symbols = allSymbols(loader)

\* C6: an ended loadAllStocks call of the PersistentStockLoader or the
\* OptimizedLoader has called onComplete exactly once
C6_OnCompleteExactlyOnce ==
  \A r \in Runs :
    (loader \in { "Persistent", "Optimized" } /\ Ended(r)) => run[r].nComplete = 1

\* C7: from an empty store, when every reply held at least one record but not
\* all of them, the ended run has called onComplete once with exactly the
\* resolved symbols and never onError (BatchStockLoader, PersistentStockLoader)
C7_PartialResultTolerated ==
  \A r \in Runs :
    (/\ loader \in { "Batch", "Persistent" }
     /\ Ended(r)
     /\ run[r].cached = {} /\ run[r].snapshot = {} /\ ~run[r].stale
     /\ run[r].srcSome /\ ~run[r].srcFull)
      => /\ run[r].nComplete = 1
         /\ run[r].nError = 0
         /\ Tickers(run[r].complete) = run[r].resolved

\* C8: a run that stop() was called on issues no quote-source call for a batch
\* other than the one in flight at the stop (SP500Loader, OptimizedLoader)
C8_NoBatchAfterStop ==
  \A r \in Runs : loader \in { "SP500", "Optimized" } => ~run[r].late

C10_ProgressAfterEveryBatch ==
  \A r \in Runs :
    loader \in { "Mega", "SP500" } => BatchProgressCalls(r) = run[r].nBatches

\* C11: within one run the loaded counts of successive onProgress calls never
\* decrease (PersistentStockLoader, SP500Loader)
C11_ProgressMonotone ==
  \A r \in Runs :
    loader \in { "Persistent", "SP500" }
      => \A j, k \in 1..Len(run[r].progress) :
           j < k => run[r].progress[j][1] <= run[r].progress[k][1]
\* the fraction of the requested symbols, in per cent, above which the snapshot
\* of the Progress Store is said to be sufficient for the loader
SufficientPercent(l) ==
  CASE l = "Persistent" -> 10
    [] l = "Robust"     -> 50
    [] l = "SP500"      -> 90
    [] OTHER            -> 101

\* the call of run r found a snapshot of full age that covers the threshold
FoundSufficientCache(r) ==
  /\ run[r].pc # "idle"
  /\ ~run[r].stale
  /\ run[r].snapshot # {}
  /\ Cardinality(run[r].snapshot) * 100
       >= Len(allSymbols(loader)) * SufficientPercent(loader)

\* C12: a call that finds the cached subset covering the loader's threshold
\* (Persistent 10%, Robust 50%, SP500 90%) issues no quote-source call and
\* invokes onComplete at once, exactly once, with exactly the cached set
C12_SufficientCacheShortCircuits ==
  \A r \in Runs :
    FoundSufficientCache(r)
      => /\ run[r].nCalls = 0
         /\ run[r].requested = {}
         /\ run[r].pc = "done"
         /\ run[r].nComplete = 1
         /\ run[r].nError = 0
         /\ Tickers(run[r].complete) = run[r].snapshot

\* a PersistentStockLoader call short-circuited on a cache that covers a tenth
\* but not all of the symbols
C12_Witness ==
  \E r \in Runs :
    /\ loader = "Persistent"
    /\ FoundSufficientCache(r)
    /\ Cardinality(run[r].snapshot) < Len(allSymbols(loader))
    /\ run[r].nComplete = 1
    /\ run[r].nCalls = 0

\* C13: clearCache() on an idle loader leaves no entry in the Progress Store
\* and empties the state of the session: accumulated records, attempted set and
\* failure counters (SP500Loader, OptimizedLoader, PersistentStockLoader)
C13_ClearCacheResetsEverything ==
  [][ ( /\ ClearCache
        /\ loader \in { "SP500", "Optimized", "Persistent" }
        /\ \A r \in Runs : ~Active(r) )
      => ( /\ ~store'.present
           /\ loadedStocks' = <<>>
           /\ processedSymbols' = {}
           /\ consecutiveFailures' = 0
           /\ failureCount' = 0 ) ]_vars

\* C14: each of pe, dividendYield and marketCap of a delivered record is the
\* value the quote source supplied, or is absent when the source left it out;
\* no record is delivered without a response of the quote source
C14_NoFabricatedValuation ==
  quote.stage = "delivered"
    => /\ quote.responded
       /\ \A f \in ValuationFields : quote.stock[f] = quote.meta[f]

\* C15: after an addFunds, a successful buyStock or sellStock, or a
\* resetTradingAccount, loadTradingAccount() returns the balance and the
\* holdings of the account the operation returned; with nothing stored it
\* returns balance 10000 and no holdings
C15_AccountRoundTrip ==
  /\ (ledger.stage = "open" /\ ledger.ok
        /\ ledger.op \in { "addFunds", "buyStock", "sellStock", "resetTradingAccount" })
       => /\ loadTradingAccount(ledger.stored).balance = ledger.returned.balance
          /\ loadTradingAccount(ledger.stored).holdings = ledger.returned.holdings
  /\ (ledger.stage = "open" /\ ~ledger.stored.present)
       => /\ loadTradingAccount(ledger.stored).balance = Fin(10000, 1)
          /\ loadTradingAccount(ledger.stored).holdings = <<>>

\* the ceiling the loader compares its consecutive-failure counter with
Ceiling(l) ==
  CASE l = "Robust"     -> RobustMaxFailures
    [] l = "Persistent" -> PersistentMaxConsecutiveFailures
    [] OTHER            -> OptimizedMaxConsecutiveFailures

\* C16: as soon as the consecutive-failure counter reaches the ceiling during
\* a run of the RobustStockLoader or PersistentStockLoader, also one that
\* started from a non-empty cache, the run has ended with onError and issues
\* no further quote-source call
C16_CeilingAbortsRun ==
  \A r \in Runs :
    ( /\ loader \in { "Robust", "Persistent" }
      /\ run[r].pc # "idle"
      /\ run[r].startFails < Ceiling(loader)
      /\ ConsecutiveCounter >= Ceiling(loader) )
      => /\ Ended(r)
         /\ run[r].nError >= 1

\* the run is between two batches and has merged the records of a batch
AtBatchBoundary(r) ==
  /\ run[r].pc = "delay"
  /\ BatchProgressCalls(r) > 0
  /\ loadedStocks # <<>>

\* C17: after every successful batch the snapshot in the Progress Store holds
\* every record accumulated so far (SP500Loader, OptimizedLoader)
C17_CheckpointPerBatch ==
  \A r \in Runs :
    (loader \in { "SP500", "Optimized" } /\ AtBatchBoundary(r))
      => /\ store.present
         /\ Tickers(store.stocks) = Tickers(loadedStocks)

\* the step in which the last allowed attempt of run r's batch ends without a
\* record: the batch is over and no progress was reported for it
RetriesExhausted(r) ==
  /\ run[r].pc = "fetch"
  /\ run'[r].nBatches = run[r].nBatches + 1
  /\ run'[r].progress = run[r].progress

\* C18: when every allowed attempt of a batch has failed or returned nothing,
\* the symbols of the batch are in the attempted set and the failure counter
\* has been incremented (SP500Loader, OptimizedLoader)
C18_ExhaustedBatchIsAttempted ==
  [][ \A r \in Runs :
        (loader \in { "SP500", "Optimized" } /\ RetriesExhausted(r))
          => /\ SeqToSet(run[r].inflight) \subseteq processedSymbols'
             /\ consecutiveFailures' > consecutiveFailures ]_vars

\* run r has ended and the next loadAllStocks call is made on the instance
NextCall(r) ==
  /\ Ended(r)
  /\ calls' = calls + 1
  /\ run'[r].pc # "idle"

\* C19: the symbols of a batch that used up its retries in one run are
\* requested again by the next loadAllStocks call on the same instance
\* (OptimizedLoader)
C19_FailedSymbolsRetriedByNextLoad ==
  [][ \A r \in Runs :
        (loader = "Optimized" /\ NextCall(r))
          => run[r].exhausted \subseteq
               (SeqToSet(run'[r].symbols) \cup run'[r].requested) ]_vars

\* the quote-source calls of run r that have not been answered
Outstanding(r) ==
  (IF run[r].pc = "fetch" THEN 1 ELSE 0) + run[r].abandoned

\* C20: in the OptimizedLoader, which loads its batches one after the other under
\* a batch timeout, at most one quote-source call is outstanding at any moment
C20_OneCallOutstanding ==
  \A r \in Runs : loader = "Optimized" => Outstanding(r) <= 1

\* C21: no successful fetch is lost: every record a quote-source call returned
\* while a SmartLoader run was under way is in the onComplete payload of
\* that run, batch timeouts and early loop exits included
C21_NoFetchLost ==
  \A r \in Runs :
    (loader = "Smart" /\ run[r].nComplete > 0) =>
      run[r].resolved \subseteq Tickers(run[r].complete)

\* C22: with a Progress Store whose every read and write throws, loadAllStocks
\* of the PersistentStockLoader and of the SP500Loader ends without an
\* uncaught exception, and what it passes to onComplete is what it passes
\* with a working, initially empty store: the records held at the call and
\* the records the quote source returned
C22_StoreUnavailableTolerated ==
  \A r \in Runs :
    (store.throws /\ loader \in { "Persistent", "SP500" }) =>
      /\ run[r].pc # "rejected"
      /\ run[r].nComplete > 0 =>
           Tickers(run[r].complete) = run[r].cached \cup run[r].resolved

\* the batch loops of the instance that have not ended
BatchLoops == { r \in Runs : Active(r) }

\* C23: on the exported sp500Loader singleton at most one batch loop is under
\* way at any time, and a run that stop() was called on never schedules a
\* further batch, also when loadAllStocks is called again while the run is
\* still suspended in a delay or a fetch
C23_SingleBatchLoop ==
  loader = "SP500" =>
    /\ Cardinality(BatchLoops) <= 1
    /\ \A r \in Runs : run[r].stopped => ~run[r].late

\* the shares of `ticker` the account holds, 0 when it holds none
SharesHeld(account, ticker) ==
  IF findIndex(account.holdings, ticker) = 0 THEN Fin(0, 1)
  ELSE account.holdings[findIndex(account.holdings, ticker)].shares

\* the last call was a buyStock whose cost exceeded the balance, or a
\* sellStock of a ticker not held or of more shares than held
MustBeRejected ==
  \/ /\ ledger.op = "buyStock"
     /\ LessThan(ledger.before.balance, Times(ledger.shares, ledger.price))
  \/ /\ ledger.op = "sellStock"
     /\ \/ findIndex(ledger.before.holdings, ledger.ticker) = 0
        \/ LessThan(SharesHeld(ledger.before, ledger.ticker), ledger.shares)

\* C24: a buyStock whose shares x pricePerShare exceeds the balance, and a
\* sellStock of a ticker that is not held or of more shares than held, return
\* null and leave the account passed in and the stored account as they were
C24_RejectedTradeIsNoOp ==
  (ledger.stage = "calls" /\ MustBeRejected) =>
    /\ ~ledger.ok
    /\ ledger.account = ledger.before
    /\ ledger.stored = ledger.storedBefore

\* a buyStock beyond the balance was rejected on an account that holds stock
\* and has been saved
C24_Witness ==
  /\ ledger.stage = "calls"
  /\ ledger.op = "buyStock"
  /\ LessThan(ledger.before.balance, Times(ledger.shares, ledger.price))
  /\ ~ledger.ok
  /\ Len(ledger.before.holdings) > 0
  /\ ledger.storedBefore.present

\* a >= 0 on numbers: false for NaN
AtLeastZero(a) == a.k # "nan" /\ ~LessThan(a, Fin(0, 1))

\* C29: from the default account, under any sequence of addFunds with an
\* amount above 0 and of buyStock and sellStock with shares and price above
\* 0, the balance of the account is at least 0
C29_BalanceNeverNegative ==
  ledger.stage = "calls" => AtLeastZero(ledger.account.balance)

\* no two entries of the holdings list have the same ticker
OneEntryPerTicker(holdings) ==
  \A i, j \in 1..Len(holdings) : holdings[i].ticker = holdings[j].ticker => i = j

\* every entry of the holdings list has shares above 0
AllSharesPositive(holdings) ==
  \A j \in 1..Len(holdings) : LessThan(Fin(0, 1), holdings[j].shares)

\* C30: after any sequence of buyStock and sellStock calls with shares above 0
\* the holdings list has at most one entry per ticker, each with shares above
\* 0; a buyStock of a ticker already held adds the shares to that entry and
\* adds no entry, and a sellStock of exactly the shares held removes the entry
C30_HoldingsWellFormed ==
  ledger.stage = "calls" =>
    /\ OneEntryPerTicker(ledger.account.holdings)
    /\ AllSharesPositive(ledger.account.holdings)
    /\ (ledger.op = "buyStock" /\ ledger.ok
          /\ findIndex(ledger.before.holdings, ledger.ticker) > 0) =>
         /\ Len(ledger.account.holdings) = Len(ledger.before.holdings)
         /\ SharesHeld(ledger.account, ledger.ticker) =
              Plus(SharesHeld(ledger.before, ledger.ticker), ledger.shares)
    /\ (ledger.op = "sellStock" /\ ledger.ok
          /\ StrictEquals(SharesHeld(ledger.before, ledger.ticker), ledger.shares)) =>
         findIndex(ledger.account.holdings, ledger.ticker) = 0

\* a ticker was bought twice, giving one entry with the shares of both buys,
\* while another ticker is held as well
C30_Witness ==
  /\ ledger.stage = "calls"
  /\ ledger.op = "buyStock"
  /\ ledger.ok
  /\ findIndex(ledger.before.holdings, ledger.ticker) > 0
  /\ Len(ledger.account.holdings) = 2
  /\ SharesHeld(ledger.account, ledger.ticker) = Fin(3, 1)

\* C25: every record the PersistentStockLoader, the MegaStockLoader or the
\* RobustStockLoader passes to onComplete has a ticker of the requested
\* allSymbols, whatever the Progress Store held at the call, a snapshot
\* written by an earlier load with another symbol list included
C25_ResultWithinRequest ==
  \A r \in Runs :
    (loader \in { "Persistent", "Mega", "Robust" } /\ run[r].nComplete > 0) =>
      Tickers(run[r].complete) \subseteq SeqToSet(allSymbols(loader))

\* C26: after clearCache() was called during a run of the
\* PersistentStockLoader or the MegaStockLoader, no later save of that run
\* puts a record accumulated before the clear back into the Progress Store
C26_ClearCacheNotUndone ==
  \A r \in Runs :
    (loader \in { "Persistent", "Mega" } /\ run[r].pc # "idle") =>
      Tickers(store.stocks) \cap run[r].cleared = {}

\* C27 as stated: every top-level serverStockLoader.loadAllStocks call makes
\* at most maxRetries + 1 attempts, retryCount never exceeds maxRetries, and a
\* call that has ended has invoked exactly one of onComplete and onError, once
C27_ServerRetryBound ==
  client.stage = "loader" =>
    /\ client.retryCount <= ServerMaxRetries
    /\ \A c \in Callers :
         /\ client.call[c].attempts <= ServerMaxRetries + 1
         /\ client.call[c].nComplete + client.call[c].nError <= 1
         /\ client.call[c].pc = "done" =>
              client.call[c].nComplete + client.call[c].nError = 1

\* C27 amended: the bound of maxRetries + 1 attempts holds for every call
\* during which resetRetries() was not called; retryCount never exceeds
\* maxRetries, and every call invokes exactly one of onComplete and onError,
\* once, when it ends
C27_ServerRetryBoundWithoutReset ==
  client.stage = "loader" =>
    /\ client.retryCount <= ServerMaxRetries
    /\ \A c \in Callers :
         /\ ~client.call[c].resetDuring =>
              client.call[c].attempts <= ServerMaxRetries + 1
         /\ client.call[c].nComplete + client.call[c].nError <= 1
         /\ client.call[c].pc = "done" <=>
              client.call[c].nComplete + client.call[c].nError = 1

\* a call that used all its retries: four attempts, then onError, with no
\* resetRetries() in between
C27_Witness ==
  /\ client.stage = "loader"
  /\ \E c \in Callers :
       /\ client.call[c].pc = "done"
       /\ client.call[c].attempts = ServerMaxRetries + 1
       /\ client.call[c].nError = 1
       /\ ~client.call[c].resetDuring
  /\ client.resets = 0

\* C28: once stockCache holds a non-empty stock list it holds one in every
\* later state, so GET /api/stocks answers with data and GET /api/status with
\* ready; a POST /api/refresh that loaded no stock is answered with an error
\* and has left stockCache as it was
C28_ServerStaysReady ==
  server.stage = "process" =>
    /\ server.wasReady =>
         /\ IsReady(server.stockCache)
         /\ GetStocksAnswer(server.stockCache).status = 200
         /\ StatusReady(server.stockCache)
    /\ (server.answer.route = "refresh" /\ server.answer.loaded = 0) =>
         /\ server.answer.status = 500
         /\ server.stockCache = server.answer.before
    /\ (server.answer.route = "stocks" /\ server.wasReady) =>
         /\ server.answer.status = 200
         /\ Len(server.answer.data) > 0
    /\ (server.answer.route = "status" /\ server.wasReady) => server.answer.ready

\* a ready server has answered a refresh that loaded nothing
C28_Witness ==
  /\ server.stage = "process"
  /\ server.wasReady
  /\ server.answer.route = "refresh"
  /\ server.answer.loaded = 0
  /\ IsReady(server.answer.before)
  /\ server.pending > 0

====
